---- MODULE Spec2Model ----
(***************************************************************************)
(* GeoLiteService (backend/internal/service/geolite_service.go): lookups   *)
(* against the GeoLite2 City database file and the pipeline that replaces  *)
(* that file (UpdateDatabase / extractDatabase), with the sync.RWMutex     *)
(* that coordinates them.                                                  *)
(***************************************************************************)
EXTENDS Integers, Sequences, FiniteSets, TLC

(* ------------------------------------------------------------------ *)
(* Processes and bounds                                                *)
(* ------------------------------------------------------------------ *)

\* Concurrent callers of UpdateDatabase (the service does not serialise them).
Updaters == {"u1", "u2"}

\* Concurrent callers of GetLocationByIP.
Lookups == {"l1", "l2"}

\* Total number of HTTP GETs the model lets the updaters issue.
MaxHttpCalls == 2

\* Number of non-matching tar entries an archive may hold before the reader
\* reaches a matching entry, a read error or the end of the archive.
MaxSkipped == 1

\* Clock readings (days); they straddle the 14-day threshold.
Times == {13, 14}

None == "none"

(* ------------------------------------------------------------------ *)
(* Files                                                               *)
(* ------------------------------------------------------------------ *)

\* A file: id is the serial of the HTTP response it was extracted from (0 for
\* the file found on disk at start), size the length of the complete content,
\* written the bytes actually in the file, quality what maxminddb makes of the
\* complete content, mtime the time of the last write.
NoFile == [id |-> -1, size |-> 0, written |-> 0, quality |-> "none", mtime |-> 0]

Exists(f) == f.id # -1

Complete(f) == Exists(f) /\ f.written = f.size

\* const maxTotalSize = 300 * 1024 * 1024
maxTotalSize == 300 * 1024 * 1024

\* 14*24*time.Hour, in days.
FreshnessDays == 14

\* common.EnvConfig.GeoLiteDBPath: a directory and a base name.
GeoLiteDBPath == [dir |-> "data", base |-> "GeoLite2-City.mmdb"]

\* filepath.Dir
Dir(p) == p.dir

\* Variant: the temporary file is made in the system's temporary directory
\* (os.CreateTemp with an empty dir).
StagingPath_TempDir == [dir |-> "tmp", base |-> "geolite.*.mmdb.tmp"]

\* tmpFile.Name(): a file os.CreateTemp made in the directory of the database
\* under the pattern geolite.*.mmdb.tmp.
StagingPath == [dir |-> Dir(GeoLiteDBPath), base |-> "geolite.*.mmdb.tmp"]

\* maxminddb.Open: the file must exist and its metadata section, which sits at
\* the end of the file, must be found and decode.
OpenOK(f) == Complete(f) /\ f.size > 0 /\ f.quality # "badmeta"

\* Addresses the database holds a record for (every database of the model
\* covers the same networks; the names it returns carry the file's id).
HasRecord(ip) == ip[13] = 8 \/ ip[1] = 32

\* The English names database number id gives for the addresses it knows.
CountryName(id) ==
    LET names == <<"Country0", "Country1", "Country2", "Country3">>
    IN  IF id + 1 \in DOMAIN names THEN names[id + 1] ELSE "CountryN"

CityName(id) ==
    LET names == <<"City0", "City1", "City2", "City3">>
    IN  IF id + 1 \in DOMAIN names THEN names[id + 1] ELSE "CityN"

\* Variant: an address without a record is reported as an error.
DecodeResult_MissIsError(f, ip) ==
    IF f.quality = "baddata" THEN [country |-> "", city |-> "", err |-> "decode"]
    ELSE IF HasRecord(ip)
         THEN [country |-> CountryName(f.id), city |-> CityName(f.id), err |-> "nil"]
         ELSE [country |-> "", city |-> "", err |-> "notfound"]

\* db.Lookup(addr).Decode(&record), then record.Country.Names["en"] and
\* record.City.Names["en"]: an error on a damaged data section, empty names
\* when the address has no record.
DecodeResult(f, ip) ==
    IF f.quality = "baddata" THEN [country |-> "", city |-> "", err |-> "decode"]
    ELSE IF HasRecord(ip)
         THEN [country |-> CountryName(f.id), city |-> CityName(f.id), err |-> "nil"]
         ELSE [country |-> "", city |-> "", err |-> "nil"]

(* ------------------------------------------------------------------ *)
(* IP addresses: net.IP is a 16-byte sequence                          *)
(* ------------------------------------------------------------------ *)

\* net.IPv4(a, b, c, d): the 16-byte IPv4-in-IPv6 form.
IPv4(a, b, c, d) == <<0, 0, 0, 0, 0, 0, 0, 0, 0, 0, 255, 255, a, b, c, d>>

\* A 16-byte address from its eight 16-bit groups.
IPv6(g) == [i \in 1..16 |-> IF i % 2 = 1 THEN g[(i + 1) \div 2] \div 256
                                         ELSE g[i \div 2] % 256]

\* ip.To4(): the 4-byte form of an IPv4 or IPv4-mapped address, <<>> for nil.
To4(ip) ==
    IF Len(ip) = 4 THEN ip
    ELSE IF (\A i \in 1..10 : ip[i] = 0) /\ ip[11] = 255 /\ ip[12] = 255
    THEN <<ip[13], ip[14], ip[15], ip[16]>>
    ELSE <<>>

Pow2(n) == IF n = 0 THEN 1 ELSE IF n = 1 THEN 2 ELSE IF n = 2 THEN 4
           ELSE IF n = 3 THEN 8 ELSE IF n = 4 THEN 16 ELSE IF n = 5 THEN 32
           ELSE IF n = 6 THEN 64 ELSE IF n = 7 THEN 128 ELSE 256

\* byte & mask byte, for byte number i of a mask of `ones` leading one bits.
MaskByte(b, i, ones) ==
    LET k == ones - 8 * (i - 1)
        keep == IF k >= 8 THEN 8 ELSE IF k <= 0 THEN 0 ELSE k
    IN  b - (b % Pow2(8 - keep))

\* A network: the 4- or 16-byte network number and the number of mask bits.
\* IPNet.Contains: an address with a 4-byte form is compared in that form; the
\* lengths must agree.
Contains(n, ip) ==
    LET x == IF To4(ip) # <<>> THEN To4(ip) ELSE ip
    IN  /\ Len(x) = Len(n.ip)
        /\ \A i \in 1..Len(x) : MaskByte(n.ip[i], i, n.ones) = MaskByte(x[i], i, n.ones)

localhostIPNets ==
    { [ip |-> <<127, 0, 0, 0>>, ones |-> 8],
      [ip |-> IPv6(<<0, 0, 0, 0, 0, 0, 0, 1>>), ones |-> 128] }

\* Variant: 172.16.0.0 with a 16-bit mask.
privateLanIPNets_Slash16 ==
    { [ip |-> <<10, 0, 0, 0>>, ones |-> 8],
      [ip |-> <<172, 16, 0, 0>>, ones |-> 16],
      [ip |-> <<192, 168, 0, 0>>, ones |-> 16] }

privateLanIPNets ==
    { [ip |-> <<10, 0, 0, 0>>, ones |-> 8],
      [ip |-> <<172, 16, 0, 0>>, ones |-> 12],
      [ip |-> <<192, 168, 0, 0>>, ones |-> 16] }

tailscaleIPNets == { [ip |-> <<100, 64, 0, 0>>, ones |-> 10] }

(* ------------------------------------------------------------------ *)
(* Inputs                                                              *)
(* ------------------------------------------------------------------ *)

\* Strings handed to GetLocationByIP, by what the two parsers make of them:
\* "addr" parses with net.ParseIP and netip.ParseAddr, "zone" (an address with
\* a %zone suffix) only with netip.ParseAddr, "garbage" with neither.
Addr(ip) == [form |-> "addr", ip |-> ip]

PublicV4 == IPv4(8, 8, 8, 8)
UnknownV4 == IPv4(1, 1, 1, 1)
PublicV6 == IPv6(<<8193, 3512, 0, 0, 0, 0, 0, 1>>)
LocalV6 == IPv6(<<64768, 0, 0, 0, 0, 0, 0, 1>>)
LoopbackV6 == IPv6(<<0, 0, 0, 0, 0, 0, 0, 1>>)

\* The strings the range checks are tried on: addresses inside each built-in
\* range, at its edges and just outside, and IPv6 addresses inside and outside
\* the configured ranges.
ClassifierInputs ==
    { [form |-> "empty", ip |-> <<>>],
      [form |-> "garbage", ip |-> <<>>],
      [form |-> "zone", ip |-> LocalV6],
      Addr(PublicV4), Addr(UnknownV4), Addr(PublicV6), Addr(LocalV6),
      Addr(LoopbackV6), Addr(IPv6(<<0, 0, 0, 0, 0, 0, 0, 2>>)),
      Addr(IPv6(<<65152, 0, 0, 0, 0, 0, 0, 1>>)),
      Addr(IPv6(<<65215, 65535, 0, 0, 0, 0, 0, 1>>)),
      Addr(IPv6(<<65216, 0, 0, 0, 0, 0, 0, 1>>)),
      Addr(IPv4(127, 0, 0, 1)), Addr(IPv4(127, 255, 255, 254)), Addr(IPv4(128, 0, 0, 1)),
      Addr(IPv4(10, 1, 2, 3)), Addr(IPv4(10, 255, 255, 255)), Addr(IPv4(11, 0, 0, 1)),
      Addr(IPv4(172, 16, 0, 1)), Addr(IPv4(172, 31, 255, 254)), Addr(IPv4(172, 32, 0, 1)),
      Addr(IPv4(172, 15, 255, 255)),
      Addr(IPv4(192, 168, 1, 1)), Addr(IPv4(192, 168, 255, 255)), Addr(IPv4(192, 169, 0, 1)),
      Addr(IPv4(100, 64, 0, 1)), Addr(IPv4(100, 127, 255, 255)),
      Addr(IPv4(100, 128, 0, 1)), Addr(IPv4(100, 63, 255, 255)) }

\* The strings the lookups are called with.
LookupInputs ==
    { [form |-> "empty", ip |-> <<>>],
      [form |-> "garbage", ip |-> <<>>],
      Addr(IPv4(10, 1, 2, 3)), Addr(PublicV4), Addr(UnknownV4) }

\* The strings they are called with when updates overlap.
OverlapInputs == { Addr(IPv4(10, 1, 2, 3)), Addr(PublicV4) }

\* net.ParseIP: <<>> stands for nil.
ParseIP(s) == IF s.form = "addr" THEN s.ip ELSE <<>>

\* netip.ParseAddr succeeds.
ParseAddrOK(s) == s.form \in {"addr", "zone"}

\* One entry of LOCAL_IPV6_RANGES between two commas: a CIDR (the address, 16
\* bytes when written as IPv6 and 4 when written as IPv4, and the prefix
\* length), nothing, or text net.ParseCIDR rejects; pad: the entry has blanks
\* before or after it.
Cidr(ip, ones) == [kind |-> "cidr", ip |-> ip, ones |-> ones, pad |-> FALSE]
BlankEntry == [kind |-> "blank", ip |-> <<>>, ones |-> 0, pad |-> FALSE]
BadEntry == [kind |-> "bad", ip |-> <<>>, ones |-> 0, pad |-> FALSE]

\* The entry e written with blanks around it.
Padded(e) == [e EXCEPT !.pad = TRUE]

\* strings.TrimSpace
TrimSpace(e) == [e EXCEPT !.pad = FALSE]

\* net.ParseCIDR returns no error: the text is an address, a slash and a
\* prefix length, with nothing around them.
ParseCIDROK(e) == e.kind = "cidr" /\ ~e.pad

\* net.ParseCIDR's network: the address masked to the prefix.
MaskIP(ip, ones) == [i \in 1..Len(ip) |-> MaskByte(ip[i], i, ones)]

\* The loop of initializeIPv6LocalRanges: whether it returns an error, and
\* localRanges when it ends.
RECURSIVE ParseRanges(_, _)
ParseRanges(entries, acc) ==
    IF entries = <<>> THEN [err |-> FALSE, ranges |-> acc]
    ELSE LET e == TrimSpace(Head(entries)) IN
         IF e.kind = "blank" THEN ParseRanges(Tail(entries), acc)
         ELSE IF ~ParseCIDROK(e) THEN [err |-> TRUE, ranges |-> acc]
         ELSE IF To4(MaskIP(e.ip, e.ones)) # <<>> THEN [err |-> TRUE, ranges |-> acc]
         ELSE ParseRanges(Tail(entries),
                          acc \cup {[ip |-> MaskIP(e.ip, e.ones), ones |-> e.ones]})

\* Variant: the ranges parsed before the bad entry are kept.
initializeIPv6LocalRanges_KeepPartial(rangesEnv) ==
    IF rangesEnv = <<>> THEN [err |-> FALSE, ranges |-> {}]
    ELSE ParseRanges(rangesEnv, {})

\* initializeIPv6LocalRanges: the error it returns and the value of
\* s.localIPv6Ranges afterwards, which is assigned only when every entry
\* parsed.
initializeIPv6LocalRanges(rangesEnv) ==
    IF rangesEnv = <<>> THEN [err |-> FALSE, ranges |-> {}]
    ELSE LET r == ParseRanges(rangesEnv, {})
         IN  IF r.err THEN [err |-> TRUE, ranges |-> {}] ELSE r

\* common.EnvConfig as far as the service reads it.
Configs ==
    { [MaxMindLicenseKey |-> "key", DefaultUrl |-> TRUE,
       LocalIPv6Ranges |-> <<Cidr(IPv6(<<64768, 0, 0, 0, 0, 0, 0, 0>>), 8)>>] }

\* The values of LOCAL_IPV6_RANGES the range checks are tried under: unset,
\* fd00::/8, fe80::/10, ::/0 behind a blank entry, ::1/128 beside fd00::/8,
\* and a list with an entry that does not parse.
RangeLists ==
    { <<>>,
      <<Cidr(IPv6(<<64768, 0, 0, 0, 0, 0, 0, 0>>), 8)>>,
      <<Cidr(IPv6(<<65152, 0, 0, 0, 0, 0, 0, 0>>), 10)>>,
      <<BlankEntry, Cidr(IPv6(<<0, 0, 0, 0, 0, 0, 0, 0>>), 0)>>,
      <<Cidr(IPv6(<<64768, 0, 0, 0, 0, 0, 0, 0>>), 8), Cidr(LoopbackV6, 128)>>,
      <<Cidr(IPv6(<<64768, 0, 0, 0, 0, 0, 0, 0>>), 8), BadEntry>> }

ClassifierConfigs ==
    { [MaxMindLicenseKey |-> "key", DefaultUrl |-> TRUE, LocalIPv6Ranges |-> r] :
        r \in RangeLists }

\* The configurations UpdateDatabase is called under whatever DisableUpdater()
\* says: the default URL template with the license key empty or set.
KeyConfigs ==
    { [MaxMindLicenseKey |-> k, DefaultUrl |-> TRUE,
       LocalIPv6Ranges |-> <<Cidr(IPv6(<<64768, 0, 0, 0, 0, 0, 0, 0>>), 8)>>] :
        k \in {"", "key"} }

\* The values of LOCAL_IPV6_RANGES the constructor is tried under: unset; one
\* range; the same with blanks around it; two ranges with an empty entry and
\* with a blank one between them; an unparseable entry after and before a
\* range; an IPv4 range (10.0.0.0/8) after a range; the same range written
\* ::ffff:10.0.0.0/104; and ::ffff:10.0.0.0/8, which is the IPv6 range ::/8.
CfgRangeLists ==
    { <<>>,
      <<Cidr(IPv6(<<64768, 0, 0, 0, 0, 0, 0, 0>>), 8)>>,
      <<Padded(Cidr(IPv6(<<64768, 0, 0, 0, 0, 0, 0, 0>>), 8))>>,
      <<Cidr(IPv6(<<64768, 0, 0, 0, 0, 0, 0, 0>>), 8), BlankEntry,
        Cidr(IPv6(<<65152, 0, 0, 0, 0, 0, 0, 0>>), 10)>>,
      <<Cidr(IPv6(<<64768, 0, 0, 0, 0, 0, 0, 0>>), 8), Padded(BlankEntry),
        Padded(Cidr(IPv6(<<65152, 0, 0, 0, 0, 0, 0, 0>>), 10))>>,
      <<Cidr(IPv6(<<64768, 0, 0, 0, 0, 0, 0, 0>>), 8), BadEntry>>,
      <<Padded(BadEntry), Cidr(IPv6(<<64768, 0, 0, 0, 0, 0, 0, 0>>), 8)>>,
      <<Cidr(IPv6(<<64768, 0, 0, 0, 0, 0, 0, 0>>), 8), Cidr(<<10, 0, 0, 0>>, 8)>>,
      <<Cidr(IPv6(<<64768, 0, 0, 0, 0, 0, 0, 0>>), 8), Cidr(IPv4(10, 0, 0, 0), 104)>>,
      <<Cidr(IPv4(10, 0, 0, 0), 8)>> }

\* The configurations the constructor is tried under: the license key empty
\* or set, GeoLiteDBUrl the default template or another, and each value of
\* LOCAL_IPV6_RANGES.
AllConfigs ==
    { [MaxMindLicenseKey |-> k, DefaultUrl |-> d, LocalIPv6Ranges |-> r] :
        k \in {"", "key"}, d \in BOOLEAN, r \in CfgRangeLists }

\* The strings the lookups are called with under these configurations.
CfgInputs ==
    { Addr(PublicV4), Addr(UnknownV4), Addr(IPv4(10, 1, 2, 3)), Addr(IPv4(127, 0, 0, 1)),
      Addr(IPv4(100, 64, 0, 1)), Addr(LocalV6), Addr(LoopbackV6),
      Addr(IPv6(<<65152, 0, 0, 0, 0, 0, 0, 1>>)), Addr(PublicV6) }

\* Variant: the address is compared with the network address of each range
\* (localRange.IP.Equal) instead of being tested for membership.
isLocalIPv6_ExactMatch(ranges, ip) ==
    IF To4(ip) # <<>> THEN FALSE
    ELSE \E r \in ranges : r.ip = ip

\* Variant: the 16 bytes of the address are compared with each range, with no
\* look at whether they are an IPv4 address.
isLocalIPv6_RawBytes(ranges, ip) ==
    \E r \in ranges : MaskIP(ip, r.ones) = r.ip

\* isLocalIPv6
isLocalIPv6(ranges, ip) ==
    IF To4(ip) # <<>> THEN FALSE
    ELSE \E r \in ranges : Contains(r, ip)

\* Variant: the built-in tables are consulted before the configured ranges.
Classify_BuiltinsFirst(ranges, s) ==
    LET ip == ParseIP(s) IN
    IF ip = <<>> THEN None
    ELSE IF \E n \in tailscaleIPNets : Contains(n, ip) THEN "Tailscale"
    ELSE IF \E n \in privateLanIPNets : Contains(n, ip) THEN "LAN"
    ELSE IF \E n \in localhostIPNets : Contains(n, ip) THEN "localhost"
    ELSE IF isLocalIPv6(ranges, ip) THEN "LAN"
    ELSE None

\* The range checks at the head of GetLocationByIP: the label pair, or
\* "none" when no range matches (or the string does not parse with net.ParseIP).
Classify(ranges, s) ==
    LET ip == ParseIP(s) IN
    IF ip = <<>> THEN None
    ELSE IF isLocalIPv6(ranges, ip) THEN "LAN"
    ELSE IF \E n \in tailscaleIPNets : Contains(n, ip) THEN "Tailscale"
    ELSE IF \E n \in privateLanIPNets : Contains(n, ip) THEN "LAN"
    ELSE IF \E n \in localhostIPNets : Contains(n, ip) THEN "localhost"
    ELSE None

(* ------------------------------------------------------------------ *)
(* State                                                               *)
(* ------------------------------------------------------------------ *)

VARIABLES
    now,              \* the clock, in days
    touched,          \* the paths handed to os and maxminddb calls so far
    pubFile,          \* the file at common.EnvConfig.GeoLiteDBPath
    tmpFile,          \* per updater: the file os.CreateTemp gave it
    httpCalls,        \* number of httpClient.Do calls so far
    mutexW,           \* s.mutex: the updater that called Lock(), or "none"
    readers,          \* s.mutex: the lookups holding RLock
    envConfig,        \* common.EnvConfig
    localIPv6Ranges,  \* s.localIPv6Ranges
    disableUpdater,   \* s.disableUpdater
    upc, ures,        \* per updater: position in UpdateDatabase, its return value
    serial,           \* per updater: the serial of the response it reads (0: none)
    skipped,          \* per updater: tar entries passed over so far
    totalSize,        \* per updater: extractDatabase's totalSize
    pubAtStart,       \* per updater: the public file as the call found it
    lpc, lin,         \* per lookup: position in GetLocationByIP, its argument
    handle,           \* per lookup: the content maxminddb.Open mapped
    lres              \* per lookup: the return value

fsVars == <<pubFile, tmpFile>>
muVars == <<mutexW, readers>>
cfgVars == <<envConfig, localIPv6Ranges, disableUpdater>>
updVars == <<upc, ures, serial, skipped, totalSize, pubAtStart>>
lookVars == <<lpc, lin, handle, lres>>
vars == <<now, httpCalls, touched, fsVars, muVars, cfgVars, updVars, lookVars>>

NoResult == [country |-> "", city |-> "", err |-> "none"]
NoInput == [form |-> "none", ip |-> <<>>]

\* A database file the service may find on disk when it starts: written 13
\* days before the first clock reading.
OldFile(q) ==
    [id |-> 0, size |-> maxTotalSize, written |-> maxTotalSize, quality |-> q, mtime |-> 0]

InitFiles == { NoFile, OldFile("valid"), OldFile("badmeta"), OldFile("baddata") }

\* NewGeoLiteService under one of the configurations `configs`, with one of
\* `files` on disk.
\* Variant: the test of the license key turned round.
UpdaterDisabledFor_KeySet(cfg) == cfg.MaxMindLicenseKey # "" /\ cfg.DefaultUrl

\* The value NewGeoLiteService gives service.disableUpdater.
UpdaterDisabledFor(cfg) == cfg.MaxMindLicenseKey = "" /\ cfg.DefaultUrl

InitFor(files, configs) ==
    /\ now = 13
    /\ pubFile \in files
    /\ touched = {}
    /\ tmpFile = [u \in Updaters |-> NoFile]
    /\ httpCalls = 0
    /\ mutexW = None
    /\ readers = {}
    /\ \E cfg \in configs :
         /\ envConfig = cfg
         /\ disableUpdater = UpdaterDisabledFor(cfg)
         /\ localIPv6Ranges = initializeIPv6LocalRanges(cfg.LocalIPv6Ranges).ranges
    /\ upc = [u \in Updaters |-> "idle"]
    /\ ures = [u \in Updaters |-> None]
    /\ serial = [u \in Updaters |-> 0]
    /\ skipped = [u \in Updaters |-> 0]
    /\ totalSize = [u \in Updaters |-> 0]
    /\ pubAtStart = [u \in Updaters |-> NoFile]
    /\ lpc = [l \in Lookups |-> "idle"]
    /\ lin = [l \in Lookups |-> NoInput]
    /\ handle = [l \in Lookups |-> NoFile]
    /\ lres = [l \in Lookups |-> NoResult]

InitWith(files) == InitFor(files, Configs)

Init == InitWith({NoFile, OldFile("valid")})

InitSeq == InitWith(InitFiles)

InitCls == InitFor(InitFiles, ClassifierConfigs)

InitCfg == InitFor(InitFiles, AllConfigs)

InitOff == InitFor({NoFile, OldFile("valid")}, KeyConfigs)

\* DisableUpdater()
DisableUpdater == disableUpdater

(* ------------------------------------------------------------------ *)
(* sync.RWMutex                                                        *)
(* ------------------------------------------------------------------ *)

\* Variant: a plain mutex, which one reader holds against the others.
CanRLock_Exclusive == mutexW = None /\ readers = {}

\* Variant: a lock that prefers readers, which lets them in while the writer
\* is still waiting for earlier readers.
CanRLock_ReaderPreferring == mutexW = None \/ \E u \in Updaters : upc[u] = "lockwait"

\* RLock succeeds at once unless a writer has announced itself (Lock() was
\* called and not yet matched by Unlock()); otherwise the reader sleeps.
CanRLock == mutexW = None

\* Unlock wakes every reader that went to sleep behind the writer: they hold
\* the lock in shared mode from then on.
Sleeping == {l \in Lookups : lpc[l] = "rwait"}

(* ------------------------------------------------------------------ *)
(* GetLocationByIP                                                     *)
(* ------------------------------------------------------------------ *)

Label(city) == [country |-> "Internal Network", city |-> city, err |-> "nil"]
Failure(e) == [country |-> "", city |-> "", err |-> e]

\* Variant: the empty string is not set apart and goes to the parsers.
LookupCall_NoEmptyCheck(l, s) ==
    /\ lpc[l] = "idle"
    /\ lin' = [lin EXCEPT ![l] = s]
    /\ IF Classify(localIPv6Ranges, s) # None
       THEN /\ lres' = [lres EXCEPT ![l] = Label(Classify(localIPv6Ranges, s))]
            /\ lpc' = [lpc EXCEPT ![l] = "done"]
       ELSE IF ~ParseAddrOK(s)
       THEN /\ lres' = [lres EXCEPT ![l] = Failure("parse")]
            /\ lpc' = [lpc EXCEPT ![l] = "done"]
       ELSE /\ lres' = lres
            /\ lpc' = [lpc EXCEPT ![l] = "rlock"]
    /\ UNCHANGED <<touched, now, httpCalls, fsVars, muVars, cfgVars, updVars, handle>>

\* Variant: the range checks sit behind s.mutex.RLock() and maxminddb.Open, so
\* every string that parses goes on to the lock.
LookupCall_LockFirst(l, s) ==
    /\ lpc[l] = "idle"
    /\ lin' = [lin EXCEPT ![l] = s]
    /\ IF s.form = "empty"
       THEN /\ lres' = [lres EXCEPT ![l] = Failure("nil")]
            /\ lpc' = [lpc EXCEPT ![l] = "done"]
       ELSE IF ~ParseAddrOK(s)
       THEN /\ lres' = [lres EXCEPT ![l] = Failure("parse")]
            /\ lpc' = [lpc EXCEPT ![l] = "done"]
       ELSE /\ lres' = lres
            /\ lpc' = [lpc EXCEPT ![l] = "rlock"]
    /\ UNCHANGED <<touched, now, httpCalls, fsVars, muVars, cfgVars, updVars, handle>>

\* Variant: the error of netip.ParseAddr is dropped and the zero values are
\* returned.
LookupCall_IgnoreParseError(l, s) ==
    /\ lpc[l] = "idle"
    /\ lin' = [lin EXCEPT ![l] = s]
    /\ IF s.form = "empty"
       THEN /\ lres' = [lres EXCEPT ![l] = Failure("nil")]
            /\ lpc' = [lpc EXCEPT ![l] = "done"]
       ELSE IF Classify(localIPv6Ranges, s) # None
       THEN /\ lres' = [lres EXCEPT ![l] = Label(Classify(localIPv6Ranges, s))]
            /\ lpc' = [lpc EXCEPT ![l] = "done"]
       ELSE IF ~ParseAddrOK(s)
       THEN /\ lres' = [lres EXCEPT ![l] = Failure("nil")]
            /\ lpc' = [lpc EXCEPT ![l] = "done"]
       ELSE /\ lres' = lres
            /\ lpc' = [lpc EXCEPT ![l] = "rlock"]
    /\ UNCHANGED <<touched, now, httpCalls, fsVars, muVars, cfgVars, updVars, handle>>

\* The call up to s.mutex.RLock(): the empty string, the range checks,
\* netip.ParseAddr.
LookupCall(l, s) ==
    /\ lpc[l] = "idle"
    /\ lin' = [lin EXCEPT ![l] = s]
    /\ IF s.form = "empty"
       THEN /\ lres' = [lres EXCEPT ![l] = Failure("nil")]
            /\ lpc' = [lpc EXCEPT ![l] = "done"]
       ELSE IF Classify(localIPv6Ranges, s) # None
       THEN /\ lres' = [lres EXCEPT ![l] = Label(Classify(localIPv6Ranges, s))]
            /\ lpc' = [lpc EXCEPT ![l] = "done"]
       ELSE IF ~ParseAddrOK(s)
       THEN /\ lres' = [lres EXCEPT ![l] = Failure("parse")]
            /\ lpc' = [lpc EXCEPT ![l] = "done"]
       ELSE /\ lres' = lres
            /\ lpc' = [lpc EXCEPT ![l] = "rlock"]
    /\ UNCHANGED <<touched, now, httpCalls, fsVars, muVars, cfgVars, updVars, handle>>

\* s.mutex.RLock()
LookupRLock(l) ==
    /\ lpc[l] = "rlock"
    /\ IF CanRLock
       THEN /\ readers' = readers \cup {l}
            /\ lpc' = [lpc EXCEPT ![l] = "open"]
       ELSE /\ readers' = readers
            /\ lpc' = [lpc EXCEPT ![l] = "rwait"]
    /\ UNCHANGED <<touched, now, httpCalls, fsVars, mutexW, cfgVars, updVars, lin, handle, lres>>

\* Variant: a file that does not open is removed by the lookup.
LookupOpen_RemoveBroken(l) ==
    /\ lpc[l] = "open"
    /\ handle' = [handle EXCEPT ![l] = pubFile]
    /\ IF OpenOK(pubFile)
       THEN /\ lpc' = [lpc EXCEPT ![l] = "decode"]
            /\ UNCHANGED <<lres, readers, fsVars>>
       ELSE /\ lres' = [lres EXCEPT ![l] = Failure("open")]
            /\ readers' = readers \ {l}
            /\ lpc' = [lpc EXCEPT ![l] = "done"]
            /\ pubFile' = NoFile
            /\ tmpFile' = tmpFile
    /\ touched' = touched \cup {GeoLiteDBPath}
    /\ UNCHANGED <<now, httpCalls, mutexW, cfgVars, updVars, lin>>

\* Variant: the shared lock is not released when maxminddb.Open fails.
LookupOpen_KeepLockOnError(l) ==
    /\ lpc[l] = "open"
    /\ handle' = [handle EXCEPT ![l] = pubFile]
    /\ IF OpenOK(pubFile)
       THEN /\ lpc' = [lpc EXCEPT ![l] = "decode"]
            /\ UNCHANGED <<lres, readers>>
       ELSE /\ lres' = [lres EXCEPT ![l] = Failure("open")]
            /\ readers' = readers
            /\ lpc' = [lpc EXCEPT ![l] = "done"]
    /\ touched' = touched \cup {GeoLiteDBPath}
    /\ UNCHANGED <<now, httpCalls, fsVars, mutexW, cfgVars, updVars, lin>>

\* maxminddb.Open(common.EnvConfig.GeoLiteDBPath); on an error the deferred
\* RUnlock runs and the call returns.
LookupOpen(l) ==
    /\ lpc[l] = "open"
    /\ handle' = [handle EXCEPT ![l] = pubFile]
    /\ IF OpenOK(pubFile)
       THEN /\ lpc' = [lpc EXCEPT ![l] = "decode"]
            /\ UNCHANGED <<lres, readers>>
       ELSE /\ lres' = [lres EXCEPT ![l] = Failure("open")]
            /\ readers' = readers \ {l}
            /\ lpc' = [lpc EXCEPT ![l] = "done"]
    /\ touched' = touched \cup {GeoLiteDBPath}
    /\ UNCHANGED <<now, httpCalls, fsVars, mutexW, cfgVars, updVars, lin>>

\* Variant: a Decode error returns without the RUnlock.
LookupDecode_KeepLockOnError(l) ==
    /\ lpc[l] = "decode"
    /\ lres' = [lres EXCEPT ![l] = DecodeResult(handle[l], lin[l].ip)]
    /\ readers' = IF DecodeResult(handle[l], lin[l].ip).err = "nil"
                  THEN readers \ {l} ELSE readers
    /\ lpc' = [lpc EXCEPT ![l] = "done"]
    /\ UNCHANGED <<touched, now, httpCalls, fsVars, mutexW, cfgVars, updVars, lin, handle>>

\* db.Lookup(addr).Decode(&record), then the deferred db.Close() and RUnlock.
LookupDecode(l) ==
    /\ lpc[l] = "decode"
    /\ lres' = [lres EXCEPT ![l] = DecodeResult(handle[l], lin[l].ip)]
    /\ readers' = readers \ {l}
    /\ lpc' = [lpc EXCEPT ![l] = "done"]
    /\ UNCHANGED <<touched, now, httpCalls, fsVars, mutexW, cfgVars, updVars, lin, handle>>

\* The caller takes the result.
LookupReturn(l) ==
    /\ lpc[l] = "done"
    /\ lpc' = [lpc EXCEPT ![l] = "idle"]
    /\ lin' = [lin EXCEPT ![l] = NoInput]
    /\ handle' = [handle EXCEPT ![l] = NoFile]
    /\ lres' = [lres EXCEPT ![l] = NoResult]
    /\ UNCHANGED <<touched, now, httpCalls, fsVars, muVars, cfgVars, updVars>>

(* ------------------------------------------------------------------ *)
(* UpdateDatabase                                                      *)
(* ------------------------------------------------------------------ *)

\* Variant: a file that os.Stat does not find counts as up to date.
isDatabaseUpToDate_MissingIsFresh(f, t) == ~Exists(f) \/ t - f.mtime < FreshnessDays

\* Variant: the comparison turned round ("older than 14 days").
isDatabaseUpToDate_OlderThan(f, t) == Exists(f) /\ t - f.mtime > FreshnessDays

\* isDatabaseUpToDate: os.Stat succeeds and time.Since(ModTime) < 14 days.
isDatabaseUpToDate(f, t) == Exists(f) /\ t - f.mtime < FreshnessDays

\* Invocations that have been admitted but have not issued their request yet.
Pending == {v \in Updaters : upc[v] = "download"}

\* Return from UpdateDatabase with value r.
Finish(u, r) ==
    /\ upc' = [upc EXCEPT ![u] = "done"]
    /\ ures' = [ures EXCEPT ![u] = r]

\* Go on to step p.
Goto(u, p) ==
    /\ upc' = [upc EXCEPT ![u] = p]
    /\ ures' = ures

\* Variant: UpdateDatabase returns at once on an instance whose updater is
\* disabled.
UpdCheckFreshness_HonoursFlag(u) ==
    /\ upc[u] \in {"idle", "done"}
    /\ isDatabaseUpToDate(pubFile, now) \/ httpCalls + Cardinality(Pending) < MaxHttpCalls
    /\ pubAtStart' = [pubAtStart EXCEPT ![u] = pubFile]
    /\ serial' = [serial EXCEPT ![u] = 0]
    /\ skipped' = [skipped EXCEPT ![u] = 0]
    /\ totalSize' = [totalSize EXCEPT ![u] = 0]
    /\ IF disableUpdater \/ isDatabaseUpToDate(pubFile, now)
       THEN Finish(u, "ok")
       ELSE /\ upc' = [upc EXCEPT ![u] = "download"]
            /\ ures' = [ures EXCEPT ![u] = None]
    /\ touched' = touched \cup {GeoLiteDBPath}
    /\ UNCHANGED <<now, httpCalls, fsVars, muVars, cfgVars, lookVars>>

\* Entry of UpdateDatabase, by a caller that is idle or has just got the
\* result of its previous call: the freshness check.
UpdCheckFreshness(u) ==
    /\ upc[u] \in {"idle", "done"}
    /\ isDatabaseUpToDate(pubFile, now) \/ httpCalls + Cardinality(Pending) < MaxHttpCalls
    /\ pubAtStart' = [pubAtStart EXCEPT ![u] = pubFile]
    /\ serial' = [serial EXCEPT ![u] = 0]
    /\ skipped' = [skipped EXCEPT ![u] = 0]
    /\ totalSize' = [totalSize EXCEPT ![u] = 0]
    /\ IF isDatabaseUpToDate(pubFile, now)
       THEN Finish(u, "ok")
       ELSE /\ upc' = [upc EXCEPT ![u] = "download"]
            /\ ures' = [ures EXCEPT ![u] = None]
    /\ touched' = touched \cup {GeoLiteDBPath}
    /\ UNCHANGED <<now, httpCalls, fsVars, muVars, cfgVars, lookVars>>

\* What the request comes to: http.NewRequestWithContext fails, Do fails (a
\* transport error, the context cancelled or timed out), a status other than
\* 200, a 200 whose body gzip.NewReader rejects, or a 200 whose body is a
\* gzip stream.
DownloadOutcomes == {"badrequest", "transport", "status", "badgzip", "ok"}

\* Variant: a request that failed is sent a second time before giving up.
UpdDownload_Retry(u, o) ==
    /\ upc[u] = "download"
    /\ httpCalls' = IF o = "badrequest" THEN httpCalls
                    ELSE IF o \in {"transport", "status"} THEN httpCalls + 2
                    ELSE httpCalls + 1
    /\ IF o = "ok"
       THEN /\ serial' = [serial EXCEPT ![u] = httpCalls + 1]
            /\ Goto(u, "next")
       ELSE /\ serial' = serial
            /\ Finish(u, IF o = "badrequest" THEN "RequestFailed"
                         ELSE IF o = "badgzip" THEN "ArchiveInvalid"
                         ELSE "DownloadFailed")
    /\ UNCHANGED <<touched, now, fsVars, muVars, cfgVars, skipped, totalSize, pubAtStart, lookVars>>

\* http.NewRequestWithContext, s.httpClient.Do, the status check, and
\* gzip.NewReader at the head of extractDatabase.
UpdDownload(u, o) ==
    /\ upc[u] = "download"
    /\ httpCalls' = IF o = "badrequest" THEN httpCalls ELSE httpCalls + 1
    /\ IF o = "ok"
       THEN /\ serial' = [serial EXCEPT ![u] = httpCalls + 1]
            /\ Goto(u, "next")
       ELSE /\ serial' = serial
            /\ Finish(u, IF o = "badrequest" THEN "RequestFailed"
                         ELSE IF o = "badgzip" THEN "ArchiveInvalid"
                         ELSE "DownloadFailed")
    /\ UNCHANGED <<touched, now, fsVars, muVars, cfgVars, skipped, totalSize, pubAtStart, lookVars>>

\* What tarReader.Next() can return: the end of the archive, a read error, or
\* the header of the next entry (entry type, whether its base name is
\* GeoLite2-City.mmdb, its size) with, behind it, content of some quality.
EntrySizes == {0, maxTotalSize, maxTotalSize + 1}

Headers ==
    { [reg |-> r, name |-> n, size |-> z, quality |-> q] :
        r \in BOOLEAN, n \in BOOLEAN, z \in EntrySizes,
        q \in {"valid", "badmeta"} }

\* Content of the model's archives: an empty file is no database, and the
\* entries that are not the database file (directories, links, files of
\* another name, of any size) hold no database either.
ArchiveHeaders ==
    { h \in Headers :
        /\ (h.size = 0 => h.quality = "badmeta")
        /\ (~(h.reg /\ h.name) => h.quality = "badmeta") }

\* Variant: the base name of the entry is not looked at.
Matches_AnyRegularFile(h) == h.reg

\* header.Typeflag == tar.TypeReg && filepath.Base(header.Name) == "GeoLite2-City.mmdb"
Matches(h) == h.reg /\ h.name

\* Variant: a total equal to the limit is rejected too.
OverLimit_Inclusive(total) == total >= maxTotalSize

\* Variant: the limit one byte too high.
OverLimit_OffByOne(total) == total > maxTotalSize + 1

\* totalSize > maxTotalSize
OverLimit(total) == total > maxTotalSize

\* Variant: the end of the archive ends the call without an error.
UpdTarEOF_Ok(u) ==
    /\ upc[u] = "next"
    /\ Finish(u, "ok")
    /\ UNCHANGED <<touched, now, httpCalls, fsVars, muVars, cfgVars, serial, skipped, totalSize,
                   pubAtStart, lookVars>>

\* tarReader.Next() returned io.EOF: the loop ends.
UpdTarEOF(u) ==
    /\ upc[u] = "next"
    /\ Finish(u, "NotFound")
    /\ UNCHANGED <<touched, now, httpCalls, fsVars, muVars, cfgVars, serial, skipped, totalSize,
                   pubAtStart, lookVars>>

\* tarReader.Next() returned another error.
UpdTarError(u) ==
    /\ upc[u] = "next"
    /\ Finish(u, "ArchiveInvalid")
    /\ UNCHANGED <<touched, now, httpCalls, fsVars, muVars, cfgVars, serial, skipped, totalSize,
                   pubAtStart, lookVars>>

\* tarReader.Next() returned the header of an entry that is passed over.
UpdTarSkip(u, h) ==
    /\ upc[u] = "next"
    /\ ~Matches(h)
    /\ skipped[u] < MaxSkipped
    /\ skipped' = [skipped EXCEPT ![u] = skipped[u] + 1]
    /\ UNCHANGED <<touched, now, httpCalls, fsVars, muVars, cfgVars, upc, ures, serial, totalSize,
                   pubAtStart, lookVars>>

\* Variant: the temporary file has a fixed name, so creating it truncates the
\* file another invocation is staging under that name.
UpdTarMatch_FixedName(u, h, createOK) ==
    /\ upc[u] = "next"
    /\ Matches(h)
    /\ totalSize' = [totalSize EXCEPT ![u] = totalSize[u] + h.size]
    /\ IF OverLimit(totalSize[u] + h.size)
       THEN /\ createOK
            /\ Finish(u, "SizeLimitExceeded")
            /\ tmpFile' = tmpFile
       ELSE IF ~createOK
       THEN /\ Finish(u, "StageFailed")
            /\ tmpFile' = tmpFile
       ELSE /\ Goto(u, "copy")
            /\ tmpFile' = [v \in Updaters |->
                   IF v = u \/ Exists(tmpFile[v])
                   THEN [id |-> serial[u], size |-> h.size, written |-> 0,
                         quality |-> h.quality, mtime |-> now]
                   ELSE tmpFile[v]]
    /\ touched' = touched \cup (IF OverLimit(totalSize[u] + h.size) THEN {} ELSE {StagingPath})
    /\ UNCHANGED <<now, httpCalls, pubFile, muVars, cfgVars, serial, skipped, pubAtStart,
                   lookVars>>

\* tarReader.Next() returned the header of the database file: its size goes
\* into the total, the limit is checked and os.CreateTemp makes the temporary
\* file (createOK: whether it succeeds), into which the entry will be copied.
UpdTarMatch(u, h, createOK) ==
    /\ upc[u] = "next"
    /\ Matches(h)
    /\ totalSize' = [totalSize EXCEPT ![u] = totalSize[u] + h.size]
    /\ IF OverLimit(totalSize[u] + h.size)
       THEN /\ createOK
            /\ Finish(u, "SizeLimitExceeded")
            /\ tmpFile' = tmpFile
       ELSE IF ~createOK
       THEN /\ Finish(u, "StageFailed")
            /\ tmpFile' = tmpFile
       ELSE /\ Goto(u, "copy")
            /\ tmpFile' = [tmpFile EXCEPT ![u] =
                   [id |-> serial[u], size |-> h.size, written |-> 0,
                    quality |-> h.quality, mtime |-> now]]
    /\ touched' = touched \cup (IF OverLimit(totalSize[u] + h.size) THEN {} ELSE {StagingPath})
    /\ UNCHANGED <<now, httpCalls, pubFile, muVars, cfgVars, serial, skipped, pubAtStart,
                   lookVars>>

\* Variant: the copy reads on past the end of the entry, into what follows it
\* in the stream.
Chunks_PastEntry(f) ==
    LET left == f.size - f.written
    IN  {k \in {1, left, left + 1} : 1 <= k /\ (k = 1 => f.written = 0)}

\* The byte counts one step of io.Copy may add to file f: a first single
\* byte, or all that is left of the entry (the tar reader ends the entry at
\* the size its header declares).
Chunks(f) ==
    LET left == f.size - f.written
    IN  {k \in {1, left} : 1 <= k /\ k <= left /\ (k = 1 => f.written = 0)}

\* Variant: the entry is written to the public path itself.
UpdCopy_InPlace(u, k) ==
    /\ upc[u] = "copy"
    /\ k \in Chunks(tmpFile[u])
    /\ tmpFile' = [tmpFile EXCEPT ![u] = [@ EXCEPT !.written = @ + k, !.mtime = now]]
    /\ pubFile' = tmpFile'[u]
    /\ Goto(u, IF tmpFile[u].written + k = tmpFile[u].size THEN "validate" ELSE "copy")
    /\ touched' = touched \cup {StagingPath}
    /\ UNCHANGED <<now, httpCalls, muVars, cfgVars, serial, skipped, totalSize,
                   pubAtStart, lookVars>>

\* Variant: the file keeps the modification time of the archive entry.
UpdCopy_HeaderTime(u, k) ==
    /\ upc[u] = "copy"
    /\ k \in Chunks(tmpFile[u])
    /\ tmpFile' = [tmpFile EXCEPT ![u] = [@ EXCEPT !.written = @ + k, !.mtime = 0]]
    /\ Goto(u, IF tmpFile[u].written + k = tmpFile[u].size THEN "validate" ELSE "copy")
    /\ touched' = touched \cup {StagingPath}
    /\ UNCHANGED <<now, httpCalls, pubFile, muVars, cfgVars, serial, skipped, totalSize,
                   pubAtStart, lookVars>>

\* Variant: the copied file goes to the rename without being opened first.
UpdCopy_NoValidation(u, k) ==
    /\ upc[u] = "copy"
    /\ k \in Chunks(tmpFile[u])
    /\ tmpFile' = [tmpFile EXCEPT ![u] = [@ EXCEPT !.written = @ + k, !.mtime = now]]
    /\ Goto(u, IF tmpFile[u].written + k = tmpFile[u].size THEN "lock" ELSE "copy")
    /\ touched' = touched \cup {StagingPath}
    /\ UNCHANGED <<now, httpCalls, pubFile, muVars, cfgVars, serial, skipped, totalSize,
                   pubAtStart, lookVars>>

\* io.Copy(tmpFile, tarReader) moves k bytes; with the last one it returns and
\* tmpFile.Close() follows.
UpdCopy(u, k) ==
    /\ upc[u] = "copy"
    /\ k \in Chunks(tmpFile[u])
    /\ tmpFile' = [tmpFile EXCEPT ![u] = [@ EXCEPT !.written = @ + k, !.mtime = now]]
    /\ Goto(u, IF tmpFile[u].written + k = tmpFile[u].size THEN "validate" ELSE "copy")
    /\ touched' = touched \cup {StagingPath}
    /\ UNCHANGED <<now, httpCalls, pubFile, muVars, cfgVars, serial, skipped, totalSize,
                   pubAtStart, lookVars>>

\* io.Copy of an empty entry returns at once.
UpdCopyEmpty(u) ==
    /\ upc[u] = "copy"
    /\ tmpFile[u].size = 0
    /\ Goto(u, "validate")
    /\ UNCHANGED <<touched, now, httpCalls, fsVars, muVars, cfgVars, serial, skipped, totalSize,
                   pubAtStart, lookVars>>

\* io.Copy fails (the stream is cut or damaged, the context is cancelled or
\* timed out, the disk refuses the write): Close, os.Remove, return.
UpdCopyFail(u) ==
    /\ upc[u] = "copy"
    /\ tmpFile[u].written < tmpFile[u].size
    /\ tmpFile' = [tmpFile EXCEPT ![u] = NoFile]
    /\ Finish(u, "StageFailed")
    /\ touched' = touched \cup {StagingPath}
    /\ UNCHANGED <<now, httpCalls, pubFile, muVars, cfgVars, serial, skipped, totalSize,
                   pubAtStart, lookVars>>

\* Variant: a cancelled copy returns without removing the temporary file.
UpdCancel_KeepStaged(u) ==
    /\ \/ upc[u] \in {"download", "next"}
       \/ upc[u] = "copy" /\ tmpFile[u].written < tmpFile[u].size
    /\ httpCalls' = IF upc[u] = "download" THEN httpCalls + 1 ELSE httpCalls
    /\ Finish(u, "Cancelled")
    /\ UNCHANGED <<touched, now, fsVars, muVars, cfgVars, serial, skipped, totalSize,
                   pubAtStart, lookVars>>

\* Variant: the time limit covers the request up to the response headers
\* only, not the reading of the body.
UpdCancel_HeadersOnly(u) ==
    /\ upc[u] = "download"
    /\ httpCalls' = httpCalls + 1
    /\ Finish(u, "Cancelled")
    /\ touched' = touched \cup (IF tmpFile[u] # NoFile THEN {StagingPath} ELSE {})
    /\ UNCHANGED <<now, fsVars, muVars, cfgVars, serial, skipped, totalSize,
                   pubAtStart, lookVars>>

\* The caller's context is cancelled, or the 10-minute timeout of
\* context.WithTimeout fires, while s.httpClient.Do or a read of the response
\* body (in tarReader.Next or io.Copy) is pending: the pending call returns the
\* context's error, the temporary file, if there is one, is closed and
\* removed, and UpdateDatabase returns an error that wraps the context's.
UpdCancel(u) ==
    /\ \/ upc[u] \in {"download", "next"}
       \/ upc[u] = "copy" /\ tmpFile[u].written < tmpFile[u].size
    /\ httpCalls' = IF upc[u] = "download" THEN httpCalls + 1 ELSE httpCalls
    /\ tmpFile' = [tmpFile EXCEPT ![u] = NoFile]
    /\ Finish(u, "Cancelled")
    /\ touched' = touched \cup (IF tmpFile[u] # NoFile THEN {StagingPath} ELSE {})
    /\ UNCHANGED <<now, pubFile, muVars, cfgVars, serial, skipped, totalSize,
                   pubAtStart, lookVars>>

\* Variant: the staged file is not opened before it is installed.
UpdValidate_Skip(u) ==
    /\ upc[u] = "validate"
    /\ Goto(u, "lock")
    /\ UNCHANGED <<touched, now, httpCalls, fsVars, muVars, cfgVars, serial, skipped, totalSize,
                   pubAtStart, lookVars>>

\* Variant: a file that fails the validation is left where it is.
UpdValidate_KeepStaged(u) ==
    /\ upc[u] = "validate"
    /\ IF OpenOK(tmpFile[u])
       THEN Goto(u, "lock")
       ELSE Finish(u, "ValidationFailed")
    /\ touched' = touched \cup {StagingPath}
    /\ UNCHANGED <<now, httpCalls, fsVars, muVars, cfgVars, serial, skipped, totalSize,
                   pubAtStart, lookVars>>

\* Variant: after a staged file that does not open, the loop goes on to the
\* next entry of the archive.
UpdValidate_TryNextEntry(u) ==
    /\ upc[u] = "validate"
    /\ IF OpenOK(tmpFile[u])
       THEN /\ Goto(u, "lock")
            /\ tmpFile' = tmpFile
       ELSE /\ tmpFile' = [tmpFile EXCEPT ![u] = NoFile]
            /\ Goto(u, "next")
    /\ touched' = touched \cup {StagingPath}
    /\ UNCHANGED <<now, httpCalls, pubFile, muVars, cfgVars, serial, skipped, totalSize,
                   pubAtStart, lookVars>>

\* maxminddb.Open(tempName); on an error os.Remove and return.
UpdValidate(u) ==
    /\ upc[u] = "validate"
    /\ IF OpenOK(tmpFile[u])
       THEN /\ Goto(u, "lock")
            /\ tmpFile' = tmpFile
       ELSE /\ tmpFile' = [tmpFile EXCEPT ![u] = NoFile]
            /\ Finish(u, "ValidationFailed")
    /\ touched' = touched \cup {StagingPath}
    /\ UNCHANGED <<now, httpCalls, pubFile, muVars, cfgVars, serial, skipped, totalSize,
                   pubAtStart, lookVars>>

\* Variant: the rename is not guarded by the lock.
UpdLock_NoLock(u) ==
    /\ upc[u] = "lock"
    /\ Goto(u, "rename")
    /\ UNCHANGED <<touched, now, httpCalls, fsVars, muVars, cfgVars, serial, skipped, totalSize,
                   pubAtStart, lookVars>>

\* s.mutex.Lock(): the writer announces itself once no other writer is in, and
\* has the lock when the readers that were in have left.
UpdLock(u) ==
    /\ upc[u] = "lock"
    /\ mutexW = None
    /\ mutexW' = u
    /\ Goto(u, IF readers = {} THEN "rename" ELSE "lockwait")
    /\ UNCHANGED <<touched, now, httpCalls, fsVars, readers, cfgVars, serial, skipped, totalSize,
                   pubAtStart, lookVars>>

\* Variant: the writer does not wait for the readers that are in.
UpdLockGranted_NoWait(u) ==
    /\ upc[u] = "lockwait"
    /\ Goto(u, "rename")
    /\ UNCHANGED <<touched, now, httpCalls, fsVars, muVars, cfgVars, serial, skipped, totalSize,
                   pubAtStart, lookVars>>

\* The last reader that was in has left: Lock() returns.
UpdLockGranted(u) ==
    /\ upc[u] = "lockwait"
    /\ readers = {}
    /\ Goto(u, "rename")
    /\ UNCHANGED <<touched, now, httpCalls, fsVars, muVars, cfgVars, serial, skipped, totalSize,
                   pubAtStart, lookVars>>

\* Variant: the old file is removed first and the temporary file renamed then.
UpdRename_RemoveFirst(u, ok) ==
    /\ upc[u] = "rename"
    /\ IF ok
       THEN /\ pubFile' = tmpFile[u]
            /\ tmpFile' = [tmpFile EXCEPT ![u] = NoFile]
            /\ Goto(u, "unlock")
       ELSE /\ pubFile' = NoFile
            /\ tmpFile' = tmpFile
            /\ Goto(u, "unlockerr")
    /\ touched' = touched \cup {StagingPath, GeoLiteDBPath}
    /\ UNCHANGED <<now, httpCalls, muVars, cfgVars, serial, skipped, totalSize,
                   pubAtStart, lookVars>>

\* os.Rename(tempName, common.EnvConfig.GeoLiteDBPath)
UpdRename(u, ok) ==
    /\ upc[u] = "rename"
    /\ IF ok
       THEN /\ pubFile' = tmpFile[u]
            /\ tmpFile' = [tmpFile EXCEPT ![u] = NoFile]
            /\ Goto(u, "unlock")
       ELSE /\ UNCHANGED fsVars
            /\ Goto(u, "unlockerr")
    /\ touched' = touched \cup {StagingPath, GeoLiteDBPath}
    /\ UNCHANGED <<now, httpCalls, muVars, cfgVars, serial, skipped, totalSize,
                   pubAtStart, lookVars>>

\* Variant: the error path of the rename returns before Unlock().
UpdUnlock_KeepOnError(u) ==
    /\ upc[u] \in {"unlock", "unlockerr"}
    /\ IF upc[u] = "unlock"
       THEN /\ mutexW' = None
            /\ readers' = readers \cup Sleeping
            /\ lpc' = [l \in Lookups |-> IF l \in Sleeping THEN "open" ELSE lpc[l]]
            /\ tmpFile' = tmpFile
            /\ Finish(u, "ok")
       ELSE /\ UNCHANGED <<mutexW, readers, lpc>>
            /\ tmpFile' = [tmpFile EXCEPT ![u] = NoFile]
            /\ Finish(u, "InstallFailed")
    /\ UNCHANGED <<touched, now, httpCalls, pubFile, cfgVars, serial, skipped, totalSize,
                   pubAtStart, lin, handle, lres>>

\* s.mutex.Unlock(), then the return: after a failed rename, os.Remove first.
UpdUnlock(u) ==
    /\ upc[u] \in {"unlock", "unlockerr"}
    /\ mutexW' = None
    /\ readers' = readers \cup Sleeping
    /\ lpc' = [l \in Lookups |-> IF l \in Sleeping THEN "open" ELSE lpc[l]]
    /\ IF upc[u] = "unlock"
       THEN /\ tmpFile' = tmpFile
            /\ Finish(u, "ok")
       ELSE /\ tmpFile' = [tmpFile EXCEPT ![u] = NoFile]
            /\ Finish(u, "InstallFailed")
    /\ touched' = touched \cup (IF upc[u] = "unlockerr" THEN {StagingPath} ELSE {})
    /\ UNCHANGED <<now, httpCalls, pubFile, cfgVars, serial, skipped, totalSize,
                   pubAtStart, lin, handle, lres>>

\* The scheduler takes the result.
UpdReturn(u) ==
    /\ upc[u] = "done"
    /\ upc' = [upc EXCEPT ![u] = "idle"]
    /\ ures' = [ures EXCEPT ![u] = None]
    /\ serial' = [serial EXCEPT ![u] = 0]
    /\ pubAtStart' = [pubAtStart EXCEPT ![u] = NoFile]
    /\ skipped' = [skipped EXCEPT ![u] = 0]
    /\ totalSize' = [totalSize EXCEPT ![u] = 0]
    /\ UNCHANGED <<touched, now, httpCalls, fsVars, muVars, cfgVars, lookVars>>

\* Time passes between the calls: an invocation, whose download is bounded
\* by the 10-minute timeout, does not span a clock reading, nor does a call
\* that follows another immediately.
Tick(t) ==
    /\ t > now
    /\ \A u \in Updaters : upc[u] = "idle"
    /\ now' = t
    /\ UNCHANGED <<touched, httpCalls, fsVars, muVars, cfgVars, updVars, lookVars>>

(* ------------------------------------------------------------------ *)
(* Specification                                                       *)
(* ------------------------------------------------------------------ *)

\* The steps of lookup l called with a string of `inputs`.
LookupStep(l, inputs) ==
    \/ \E s \in inputs : LookupCall(l, s)
    \/ LookupRLock(l)
    \/ LookupOpen(l)
    \/ LookupDecode(l)
    \/ LookupReturn(l)

\* The steps of updater u.
UpdateStep(u) ==
    \/ UpdCheckFreshness(u)
    \/ \E o \in DownloadOutcomes : UpdDownload(u, o)
    \/ UpdTarEOF(u)
    \/ UpdTarError(u)
    \/ \E h \in ArchiveHeaders : UpdTarSkip(u, h)
    \/ \E h \in ArchiveHeaders, c \in BOOLEAN : UpdTarMatch(u, h, c)
    \/ \E k \in {1, maxTotalSize - 1, maxTotalSize} : UpdCopy(u, k)
    \/ UpdCopyEmpty(u)
    \/ UpdCopyFail(u)
    \/ UpdCancel(u)
    \/ UpdValidate(u)
    \/ UpdLock(u)
    \/ UpdLockGranted(u)
    \/ \E ok \in BOOLEAN : UpdRename(u, ok)
    \/ UpdUnlock(u)
    \/ UpdReturn(u)

\* Overlapping UpdateDatabase calls beside a lookup: the service does not
\* keep two callers of UpdateDatabase apart.
Next ==
    \/ LookupStep("l1", OverlapInputs)
    \/ \E u \in Updaters : UpdateStep(u)
    \/ \E t \in Times : Tick(t)

Spec == Init /\ [][Next]_vars

\* The scheduler's job is the only caller of UpdateDatabase: its calls follow
\* one another, while concurrent lookups go on.
NextSeq ==
    \/ \E l \in Lookups : LookupStep(l, LookupInputs)
    \/ UpdateStep("u1")
    \/ \E t \in Times : Tick(t)

SpecSeq == InitSeq /\ [][NextSeq]_vars

\* GetLocationByIP on its own, over the configurations and the strings of the
\* range checks; no update runs.
NextCls == \E l \in Lookups : LookupStep(l, ClassifierInputs)

SpecCls == InitCls /\ [][NextCls]_vars

\* GetLocationByIP on its own under every configuration of the constructor.
NextCfg == \E l \in Lookups : LookupStep(l, CfgInputs)

SpecCfg == InitCfg /\ [][NextCfg]_vars

\* A caller that invokes UpdateDatabase without asking DisableUpdater() first,
\* beside a lookup.
NextOff ==
    \/ LookupStep("l1", OverlapInputs)
    \/ UpdateStep("u1")
    \/ \E t \in Times : Tick(t)

SpecOff == InitOff /\ [][NextOff]_vars

\* The steps of UpdateDatabase that wait for nothing but the scheduler or the
\* lock: the local file operations, the lock calls, and the end of the
\* context's 10 minutes. The steps that wait for the remote server
\* (UpdDownload, UpdTarEOF, UpdTarError, UpdTarSkip, UpdTarMatch, UpdCopy,
\* UpdCopyFail) are not among them: a server may stall for ever.
UpdLocalStep(u) ==
    \/ UpdCancel(u)
    \/ UpdCopyEmpty(u)
    \/ UpdValidate(u)
    \/ UpdLock(u)
    \/ UpdLockGranted(u)
    \/ \E ok \in BOOLEAN : UpdRename(u, ok)
    \/ UpdUnlock(u)

\* The steps of GetLocationByIP after the call was made.
LookupProgress(l) == LookupRLock(l) \/ LookupOpen(l) \/ LookupDecode(l)

\* Every goroutine that can run is scheduled in the end.
Fairness ==
    /\ \A u \in Updaters : WF_vars(UpdLocalStep(u))
    /\ \A l \in Lookups : WF_vars(LookupProgress(l))

\* The steps of updater u on archives whose first entry is the database file.
UpdateStepLive(u) ==
    \/ UpdCheckFreshness(u)
    \/ \E o \in DownloadOutcomes : UpdDownload(u, o)
    \/ UpdTarEOF(u)
    \/ UpdTarError(u)
    \/ \E h \in ArchiveHeaders, c \in BOOLEAN : UpdTarMatch(u, h, c)
    \/ \E k \in {1, maxTotalSize - 1, maxTotalSize} : UpdCopy(u, k)
    \/ UpdCopyEmpty(u)
    \/ UpdCopyFail(u)
    \/ UpdCancel(u)
    \/ UpdValidate(u)
    \/ UpdLock(u)
    \/ UpdLockGranted(u)
    \/ \E ok \in BOOLEAN : UpdRename(u, ok)
    \/ UpdUnlock(u)
    \/ UpdReturn(u)

\* Overlapping invocations beside a lookup that goes to the database.
NextLive ==
    \/ LookupStep("l1", {Addr(PublicV4)})
    \/ \E u \in Updaters : UpdateStepLive(u)
    \/ \E t \in Times : Tick(t)

\* The same under fair scheduling.
SpecLive == Init /\ [][NextLive]_vars /\ Fairness

(* ------------------------------------------------------------------ *)
(* Properties                                                          *)
(* ------------------------------------------------------------------ *)

\* The steps of UpdateDatabase in which the caller is in s.mutex.Lock() past
\* the announcement, or holds the lock.
LockSteps == {"lockwait", "rename", "unlock", "unlockerr"}

\* Lookups inside the section between RLock and RUnlock.
InSection == {l \in Lookups : lpc[l] \in {"open", "decode"}}

\* C1: whatever a lookup finds when it opens the public path is a whole file:
\* the database that was on disk at start, or a complete, non-empty database
\* that an update staged and validated; never an empty or partly written one.
C1_LookupSeesWholeFile ==
    \A l \in Lookups :
        Exists(handle[l]) =>
            /\ handle[l].written = handle[l].size
            /\ handle[l].size > 0
            /\ handle[l].id = 0 => handle[l] \in InitFiles
            /\ handle[l].id > 0 => handle[l].quality # "badmeta"

\* A lookup has the public file open while an update is part-way through
\* writing its staging file.
C1_Witness ==
    \E l \in Lookups, u \in Updaters :
        /\ lpc[l] = "decode"
        /\ upc[u] = "copy"
        /\ 0 < tmpFile[u].written
        /\ tmpFile[u].written < tmpFile[u].size

\* C2: a staging file on its way to the rename is complete and has been opened
\* by the decoder, and the public path never holds downloaded content that the
\* decoder would not open.
C2_OnlyValidatedPromoted ==
    /\ \A u \in Updaters :
         upc[u] \in {"lock", "lockwait", "rename"} =>
            /\ tmpFile[u].written = tmpFile[u].size
            /\ tmpFile[u].size > 0
            /\ tmpFile[u].quality # "badmeta"
    /\ pubFile.id > 0 =>
         /\ pubFile.written = pubFile.size
         /\ pubFile.size > 0
         /\ pubFile.quality # "badmeta"

\* One update has installed its file and another has had its staging file
\* refused by the validation.
C2_Witness ==
    /\ pubFile.id > 0
    /\ \E u \in Updaters : upc[u] = "done" /\ ures[u] = "ValidationFailed"

\* C3: when UpdateDatabase has returned an error, the public file is what the
\* call found.
C3_FailClosed ==
    \A u \in Updaters :
        (upc[u] = "done" /\ ures[u] # "ok") => pubFile = pubAtStart[u]

\* A call has failed at the rename, with a database installed before it.
C3_Witness ==
    \E u \in Updaters :
        upc[u] = "done" /\ ures[u] = "InstallFailed" /\ Exists(pubFile)

\* C4: an update at the rename (or between the rename and Unlock) holds the
\* lock in exclusive mode, and no lookup is inside its open+decode section
\* then.
C4_RenameUnderExclusiveLock ==
    \A u \in Updaters :
        upc[u] \in {"rename", "unlock", "unlockerr"} =>
            /\ mutexW = u
            /\ readers = {}
            /\ InSection = {}

\* An update is at the rename while a lookup waits for the shared lock.
C4_Witness ==
    \E u \in Updaters, l \in Lookups : upc[u] = "rename" /\ lpc[l] = "rwait"

\* C5: an update outside the final rename does not hold the lock, and when no
\* update is at its rename a lookup gets the shared lock at once.
C5_LockOnlyAroundRename ==
    /\ \A u \in Updaters : upc[u] \notin LockSteps => mutexW # u
    /\ (\A u \in Updaters : upc[u] \notin LockSteps) => mutexW = None

\* A lookup holds the shared lock while an update is writing its staging file.
C5_Witness ==
    \E u \in Updaters, l \in Lookups :
        upc[u] = "copy" /\ tmpFile[u].written > 0 /\ l \in readers

\* C6: when an update that downloaded a database has returned success, the
\* public path holds that database, and every lookup that is decoding decodes
\* the file now at the public path.
C6_LookupSeesNewFile ==
    /\ \A l \in Lookups : lpc[l] = "decode" => handle[l] = pubFile
    /\ \A u \in Updaters :
         (upc[u] = "done" /\ ures[u] = "ok" /\ serial[u] > 0) =>
            /\ pubFile.id = serial[u]
            /\ \A l \in Lookups : lpc[l] = "decode" => handle[l].id = serial[u]

\* After an update replaced a database, a lookup has returned names from the
\* new one.
C6_Witness ==
    \E u \in Updaters, l \in Lookups :
        /\ upc[u] = "done" /\ ures[u] = "ok" /\ serial[u] > 0
        /\ Exists(pubAtStart[u])
        /\ lpc[l] = "done"
        /\ lres[l].country = CountryName(serial[u])

\* C7: a call that finds the public file present and less than 14 days old
\* does not go on to the download; it returns success in that one step, with
\* no request issued, no staging file, the lock untouched and the file as it
\* was.
C7_FreshShortCircuit ==
    [][\A u \in Updaters :
         (upc[u] \in {"idle", "done"} /\ pubFile.id # -1 /\ now - pubFile.mtime < 14) =>
            /\ upc'[u] # "download"
            /\ (upc[u] = "idle" /\ upc'[u] = "done") =>
                 /\ ures'[u] = "ok"
                 /\ serial'[u] = 0
                 /\ httpCalls' = httpCalls
                 /\ tmpFile' = tmpFile
                 /\ mutexW' = mutexW /\ readers' = readers
                 /\ pubFile' = pubFile]_vars

\* A call has returned success without a request, on a 13-day-old file.
C7_Witness ==
    \E u \in Updaters :
        /\ upc[u] = "done" /\ ures[u] = "ok" /\ serial[u] = 0
        /\ httpCalls = 0
        /\ pubFile.id = 0 /\ now - pubFile.mtime = 13

\* C8: from the return of a call that installed a database, the installed file
\* is fresh, and a call that follows at once does not go on to the download:
\* no request is issued and the file stays.
C8_RoundTrip ==
    [][\A u \in Updaters :
         (upc[u] = "done" /\ ures[u] = "ok" /\ serial[u] > 0) =>
            /\ pubFile.id = serial[u]
            /\ now - pubFile.mtime < 14
            /\ upc'[u] \in {"idle", "done"}
            /\ upc'[u] = "done" => ures'[u] = "ok"
            /\ httpCalls' = httpCalls
            /\ pubFile' = pubFile]_vars

\* The call after an install has returned success without a request.
C8_Witness ==
    \E u \in Updaters :
        /\ upc[u] = "done" /\ ures[u] = "ok" /\ serial[u] = 0
        /\ pubFile.id > 0 /\ httpCalls = pubFile.id
        /\ pubAtStart[u] = pubFile

\* C9: the step that reads a matching header whose size is over the limit ends
\* the call with the size-limit error, with no staging file made and the public
\* file as the call found it; the error is returned for no other reason.
C9_SizeLimit ==
    [][\A u \in Updaters :
         /\ (upc[u] = "next" /\ totalSize'[u] > 300 * 1024 * 1024) =>
               (upc'[u] = "done" /\ ures'[u] = "SizeLimitExceeded")
         /\ (upc[u] = "next" /\ upc'[u] = "done" /\ ures'[u] = "SizeLimitExceeded") =>
               /\ totalSize'[u] > 300 * 1024 * 1024
               /\ tmpFile[u] = NoFile /\ tmpFile' = tmpFile
               /\ pubFile' = pubFile /\ pubFile = pubAtStart[u]]_vars

\* A call has failed on the size limit with a database installed.
C9_Witness ==
    \E u \in Updaters :
        /\ upc[u] = "done" /\ ures[u] = "SizeLimitExceeded"
        /\ totalSize[u] = 300 * 1024 * 1024 + 1
        /\ Exists(pubFile)

\* C10: a call leaves the loop over the archive entries either to stage a
\* matching entry or with an error, never with success; at the end of an
\* archive without a matching entry the public file is as the call found it.
C10_MissingEntryFails ==
    [][\A u \in Updaters :
         (upc[u] = "next" /\ upc'[u] = "done") =>
            /\ ures'[u] \in {"NotFound", "ArchiveInvalid", "SizeLimitExceeded", "StageFailed",
                            "Cancelled"}
            /\ tmpFile' = tmpFile
            /\ pubFile' = pubFile /\ pubFile = pubAtStart[u]]_vars

\* A call has read past an entry to the end of the archive and failed.
C10_Witness ==
    \E u \in Updaters :
        /\ upc[u] = "done" /\ ures[u] = "NotFound"
        /\ skipped[u] > 0
        /\ Exists(pubFile)

\* C11: the request counter moves only by the step in which an invocation
\* sends its one GET, by one, and that step takes the invocation out of the
\* download; the download is entered only at the start of an invocation; and
\* an invocation that ends with the download error ends in that same step,
\* with nothing read from a response and no temporary file.
C11_OneRequestNoRetry ==
    [][/\ httpCalls' \in {httpCalls, httpCalls + 1}
       /\ httpCalls' # httpCalls =>
             \E u \in Updaters : upc[u] = "download" /\ upc'[u] \in {"next", "done"}
       /\ \A u \in Updaters :
             /\ (upc'[u] = "download" /\ upc[u] # "download") => upc[u] \in {"idle", "done"}
             /\ (upc[u] # "done" /\ upc'[u] = "done" /\ ures'[u] = "DownloadFailed") =>
                   /\ upc[u] = "download"
                   /\ httpCalls' = httpCalls + 1
                   /\ serial'[u] = 0
                   /\ tmpFile[u] = NoFile /\ tmpFile'[u] = NoFile]_vars

\* An invocation has failed at its request, the only one sent so far.
C11_Witness ==
    \E u \in Updaters :
        upc[u] = "done" /\ ures[u] = "DownloadFailed" /\ httpCalls = 1

C14_OverlapNeverCorrupts ==
    /\ \A u \in Updaters :
          Exists(tmpFile[u]) =>
             /\ tmpFile[u].id = serial[u]
             /\ \A v \in Updaters \ {u} : Exists(tmpFile[v]) => tmpFile[v].id # tmpFile[u].id
    /\ \/ pubFile \in {NoFile, OldFile("valid")}
       \/ /\ pubFile.id \in 1..httpCalls
          /\ pubFile.written = pubFile.size
          /\ pubFile.size > 0
          /\ pubFile.quality = "valid"

\* Two invocations that overlapped have both downloaded and installed a
\* database: one download was redundant.
C14_Witness ==
    /\ \A u \in Updaters : upc[u] = "done" /\ ures[u] = "ok" /\ serial[u] > 0
    /\ \E u \in Updaters : pubAtStart[u] = NoFile /\ pubFile.id # serial[u]

\* C15: under fair scheduling every UpdateDatabase call that has started
\* returns, and every GetLocationByIP call that has started returns, whether
\* or not the remote server ever answers.
C15_EveryCallReturns ==
    /\ \A u \in Updaters : (upc[u] \notin {"idle", "done"}) ~> (upc[u] = "done")
    /\ \A l \in Lookups : (lpc[l] \notin {"idle", "done"}) ~> (lpc[l] = "done")

\* A lookup sleeps behind an update that is at its rename, while the other
\* update waits for the server's answer.
C15_Witness ==
    \E u, v \in Updaters, l \in Lookups :
        upc[u] = "rename" /\ upc[v] = "download" /\ lpc[l] = "rwait"

\* C16: a call with the empty string returns in its first step with empty
\* country, empty city and no error; it does not touch the lock and opens no
\* file.
C16_EmptyInput ==
    [][\A l \in Lookups :
         (lpc[l] = "idle" /\ lin'[l].form = "empty") =>
            /\ lpc'[l] = "done"
            /\ lres'[l] = [country |-> "", city |-> "", err |-> "nil"]
            /\ handle'[l] = NoFile
            /\ readers' = readers /\ mutexW' = mutexW
            /\ pubFile' = pubFile]_vars

\* A call with the empty string has returned while an update holds the lock
\* for its rename and the file on disk is one the decoder does not open.
C16_Witness ==
    \E l \in Lookups :
        /\ lpc[l] = "done" /\ lin[l].form = "empty"
        /\ lres[l] = [country |-> "", city |-> "", err |-> "nil"]
        /\ mutexW # None
        /\ pubFile.quality = "badmeta"

\* C17: a call whose address the range checks match returns in its first
\* step with the label pair and no error, whatever the file and the lock are;
\* it does not touch the lock and opens no file, and no call that is at the
\* lock or has the file open carries such an address.
C17_ClassifiedSkipsDatabase ==
    [][\A l \in Lookups :
         /\ (lpc[l] = "idle" /\ lpc'[l] # "idle"
                /\ Classify(localIPv6Ranges, lin'[l]) # None) =>
               /\ lpc'[l] = "done"
               /\ lres'[l] = [country |-> "Internal Network",
                              city |-> Classify(localIPv6Ranges, lin'[l]),
                              err |-> "nil"]
               /\ handle'[l] = NoFile
               /\ readers' = readers /\ mutexW' = mutexW
               /\ pubFile' = pubFile
         /\ lpc[l] \in {"rlock", "rwait", "open", "decode"} =>
               Classify(localIPv6Ranges, lin[l]) = None]_vars

\* A call with 10.1.2.3 has returned the LAN label while an update waits for
\* the readers to leave, with no database file on disk.
C17_Witness ==
    \E l \in Lookups, u \in Updaters :
        /\ lpc[l] = "done" /\ lin[l] = Addr(IPv4(10, 1, 2, 3))
        /\ lres[l] = Label("LAN")
        /\ upc[u] = "lockwait"
        /\ pubFile = NoFile

\* The ranges as the specification writes them, by bits and bytes of the
\* address. An address is IPv4 when it has the IPv4-in-IPv6 form.
IsV4(ip) == (\A i \in 1..10 : ip[i] = 0) /\ ip[11] = 255 /\ ip[12] = 255

\* Bit j (1 the highest) of byte b.
BitOf(b, j) == (b \div Pow2(8 - j)) % 2

\* ip agrees with net in its first `ones` bits.
InBlock(net, ones, ip) ==
    \A q \in 1..ones :
        BitOf(ip[((q - 1) \div 8) + 1], ((q - 1) % 8) + 1)
            = BitOf(net[((q - 1) \div 8) + 1], ((q - 1) % 8) + 1)

InConfigured(ip) ==
    ~IsV4(ip) /\ \E r \in localIPv6Ranges : InBlock(r.ip, r.ones, ip)

InCgnat(ip) == IsV4(ip) /\ ip[13] = 100 /\ ip[14] \in 64..127

InPrivate(ip) ==
    /\ IsV4(ip)
    /\ \/ ip[13] = 10
       \/ ip[13] = 172 /\ ip[14] \in 16..31
       \/ ip[13] = 192 /\ ip[14] = 168

InLoopback(ip) ==
    \/ IsV4(ip) /\ ip[13] = 127
    \/ ip = <<0, 0, 0, 0, 0, 0, 0, 0, 0, 0, 0, 0, 0, 0, 0, 1>>

\* C18, as stated: whatever ranges are configured, a call with an address of
\* 10.0.0.0/8, 172.16.0.0/12 or 192.168.0.0/16 returns the LAN label, a call
\* with an address of 127.0.0.0/8 or with ::1 the localhost label, and neither
\* opens the file.
C18_BuiltInLabelWhateverRanges ==
    \A l \in Lookups :
        (lpc[l] # "idle" /\ lin[l].form = "addr"
            /\ (InPrivate(lin[l].ip) \/ InLoopback(lin[l].ip))) =>
           /\ lpc[l] = "done"
           /\ handle[l] = NoFile
           /\ lres[l] = [country |-> "Internal Network",
                         city |-> IF InPrivate(lin[l].ip) THEN "LAN" ELSE "localhost",
                         err |-> "nil"]

\* C18, amended: as stated for the four IPv4 ranges, and for ::1 when no
\* configured range holds it; when a configured range holds ::1 the call
\* returns the LAN label. In no case is the file opened.
C18_BuiltInLabel ==
    \A l \in Lookups :
        (lpc[l] # "idle" /\ lin[l].form = "addr"
            /\ (InPrivate(lin[l].ip) \/ InLoopback(lin[l].ip))) =>
           /\ lpc[l] = "done"
           /\ handle[l] = NoFile
           /\ lres[l] = [country |-> "Internal Network",
                         city |-> IF InPrivate(lin[l].ip) \/ InConfigured(lin[l].ip)
                                  THEN "LAN" ELSE "localhost",
                         err |-> "nil"]

\* A call with ::1 has returned the LAN label: a configured range holds ::1.
C18_Witness ==
    \E l \in Lookups :
        /\ lpc[l] = "done" /\ lin[l] = Addr(LoopbackV6)
        /\ lres[l] = Label("LAN")

\* The first rule of the list that applies to an address, "none" for rule 5.
FirstRule(ip) ==
    IF InConfigured(ip) THEN "LAN"
    ELSE IF InCgnat(ip) THEN "Tailscale"
    ELSE IF InPrivate(ip) THEN "LAN"
    ELSE IF InLoopback(ip) THEN "localhost"
    ELSE None

RealEntries ==
    { envConfig.LocalIPv6Ranges[i] : i \in 1..Len(envConfig.LocalIPv6Ranges) }
        \ { e \in { envConfig.LocalIPv6Ranges[i] : i \in 1..Len(envConfig.LocalIPv6Ranges) } :
              e.kind = "blank" }

\* e is an IPv4 range: written in IPv4 form, or a block of the IPv4-in-IPv6
\* addresses.
IsV4Range(e) ==
    e.kind = "cidr" /\ (Len(e.ip) = 4 \/ (IsV4(e.ip) /\ e.ones >= 96))

\* Some entry does not parse as a CIDR or is an IPv4 range.
HasBadEntry == \E e \in RealEntries : e.kind = "bad" \/ IsV4Range(e)

\* C21: when an entry of LOCAL_IPV6_RANGES does not parse or is an IPv4
\* range, the service is constructed with an empty Local Range Set, valid
\* entries before the bad one included, and the built-in rules still label
\* their addresses; otherwise an IPv6 address is in the set exactly when it
\* is in the block of some non-empty entry, read without the blanks around it.
C21_BadEntryEmptiesRangeSet ==
    /\ HasBadEntry => localIPv6Ranges = {}
    /\ ~HasBadEntry =>
          \A s \in CfgInputs :
              ~IsV4(s.ip) =>
                 ((\E r \in localIPv6Ranges : InBlock(r.ip, r.ones, s.ip))
                    <=> (\E e \in RealEntries : InBlock(e.ip, e.ones, s.ip)))
    /\ \A l \in Lookups :
          (HasBadEntry /\ lpc[l] # "idle") =>
             /\ InCgnat(lin[l].ip) => lres[l] = Label("Tailscale")
             /\ InPrivate(lin[l].ip) => lres[l] = Label("LAN")
             /\ InLoopback(lin[l].ip) => lres[l] = Label("localhost")
             /\ ~(InCgnat(lin[l].ip) \/ InPrivate(lin[l].ip) \/ InLoopback(lin[l].ip))
                   => lres[l].country # "Internal Network"

\* A bad entry follows a valid one, the set is empty, a LAN address got its
\* label and an address of the valid entry's range went to the database.
C21_Witness ==
    /\ envConfig.LocalIPv6Ranges
         = <<Cidr(IPv6(<<64768, 0, 0, 0, 0, 0, 0, 0>>), 8), Cidr(<<10, 0, 0, 0>>, 8)>>
    /\ localIPv6Ranges = {}
    /\ lpc["l1"] = "done" /\ lin["l1"] = Addr(IPv4(10, 1, 2, 3)) /\ lres["l1"] = Label("LAN")
    /\ lpc["l2"] = "done" /\ lin["l2"] = Addr(LocalV6) /\ Exists(handle["l2"])

(* ------------------------------------------------------------------ *)
(* Lookups that reach the parser and the database                      *)
(* ------------------------------------------------------------------ *)

\* C22: a call with a non-empty string that is no IP address has returned the
\* invalid-address error with empty country and city as soon as it is made:
\* it never waits for or holds the shared lock and never opens the file.
C22_InvalidAddress ==
    \A l \in Lookups :
        (lpc[l] # "idle" /\ lin[l].form = "garbage") =>
           /\ lpc[l] = "done"
           /\ lres[l] = [country |-> "", city |-> "", err |-> "parse"]
           /\ l \notin readers
           /\ handle[l] = NoFile

\* The call has returned its error while an update holds the exclusive lock.
C22_Witness ==
    /\ lpc["l1"] = "done" /\ lin["l1"].form = "garbage" /\ lres["l1"].err = "parse"
    /\ mutexW = "u1" /\ upc["u1"] = "rename"

\* C23: a call with an address that parses, that no range holds and that the
\* database opened for it has no record for returns empty country and city
\* and no error.
C23_MissIsNotAnError ==
    \A l \in Lookups :
        (lpc[l] = "done" /\ lin[l].form = "addr" /\ ~HasRecord(lin[l].ip)
            /\ Exists(handle[l]) /\ handle[l].quality = "valid") =>
           lres[l] = [country |-> "", city |-> "", err |-> "nil"]

\* 1.1.1.1 has been looked up in a database installed by an update.
C23_Witness ==
    /\ lpc["l1"] = "done" /\ lin["l1"] = Addr(UnknownV4)
    /\ handle["l1"].quality = "valid" /\ handle["l1"].id > 0
    /\ lres["l1"] = [country |-> "", city |-> "", err |-> "nil"]

\* The file cannot be opened as a database: it is missing, empty, or its
\* metadata does not decode.
Unopenable(f) == f = NoFile \/ f.size = 0 \/ f.quality = "badmeta"

\* C24: when the file is missing or does not open, or its data does not
\* decode, the step of the call that meets the failure ends the call with the
\* error, without a second attempt, releases the shared lock, and changes
\* nothing else: the file, the exclusive lock, the other readers, the updates
\* and the other lookups are as they were.
C24_FailureIsLocal ==
    [][\A l \in Lookups :
          (lpc'[l] # lpc[l]
             /\ \/ lpc[l] = "open" /\ Unopenable(pubFile)
                \/ lpc[l] = "decode" /\ handle[l].quality = "baddata") =>
             /\ lpc'[l] = "done"
             /\ lres'[l] = [country |-> "", city |-> "",
                            err |-> IF lpc[l] = "open" THEN "open" ELSE "decode"]
             /\ l \in readers
             /\ readers' = readers \ {l}
             /\ mutexW' = mutexW
             /\ pubFile' = pubFile /\ tmpFile' = tmpFile
             /\ upc' = upc /\ ures' = ures
             /\ \A k \in Lookups \ {l} : lpc'[k] = lpc[k] /\ lres'[k] = lres[k]
      ]_vars

\* One call failed on the missing file and still holds its error; since then
\* an update has installed a database and another call has read a record
\* from it.
C24_Witness ==
    /\ lpc["l1"] = "done" /\ lin["l1"] = Addr(PublicV4)
    /\ handle["l1"] = NoFile /\ lres["l1"] = Failure("open")
    /\ ures["u1"] = "ok" /\ pubFile.id > 0
    /\ lpc["l2"] = "done" /\ lin["l2"] = Addr(PublicV4)
    /\ handle["l2"] = pubFile /\ lres["l2"].err = "nil" /\ lres["l2"].country # ""
    /\ readers = {}

(* ------------------------------------------------------------------ *)
(* The updater switch                                                  *)
(* ------------------------------------------------------------------ *)

\* With the updater reported disabled, a lookup of a public address reads the
\* file on disk and returns what that file holds for it.
LookupsStillWork ==
    \A l \in Lookups :
        (DisableUpdater /\ lpc[l] = "done" /\ lin[l] = Addr(PublicV4)) =>
           /\ handle[l] = pubFile
           /\ (pubFile # NoFile /\ pubFile.quality = "valid") =>
                 lres[l] = [country |-> "Country0", city |-> "City0", err |-> "nil"]

\* C25, as stated: DisableUpdater() returns true whenever the license key is
\* empty, whatever the URL template, and lookups still work against the file
\* on disk.
C25_EmptyKeyDisables ==
    /\ envConfig.MaxMindLicenseKey = "" => DisableUpdater
    /\ LookupsStillWork

\* C25, amended: DisableUpdater() returns true whenever the license key is
\* empty and the URL template is the default one, and lookups still work
\* against the file on disk.
C25_EmptyKeyDefaultUrlDisables ==
    /\ (envConfig.MaxMindLicenseKey = "" /\ envConfig.DefaultUrl) => DisableUpdater
    /\ LookupsStillWork

\* The key is empty, the template the default one, the updater is reported
\* disabled and a lookup has returned a record of the file on disk.
C25_Witness ==
    /\ envConfig.MaxMindLicenseKey = "" /\ envConfig.DefaultUrl
    /\ DisableUpdater
    /\ lpc["l1"] = "done" /\ lin["l1"] = Addr(PublicV4)
    /\ handle["l1"] = OldFile("valid") /\ lres["l1"].country = "Country0"

(* ------------------------------------------------------------------ *)
(* Paths                                                               *)
(* ------------------------------------------------------------------ *)

\* C26: every path a lookup or an update has handed to the filesystem is the
\* path of the database or a temporary file in the directory of that path.
C26_OnlyDatabaseAndStagingPaths ==
    \A p \in touched :
        \/ p = [dir |-> "data", base |-> "GeoLite2-City.mmdb"]
        \/ p.dir = "data" /\ p.base = "geolite.*.mmdb.tmp"

\* A lookup has opened the database and an update has checked, staged,
\* validated and renamed: both kinds of path have been used.
C26_Witness ==
    /\ touched = {GeoLiteDBPath, StagingPath}
    /\ ures["u1"] = "ok" /\ pubFile.id > 0
    /\ lpc["l1"] = "done" /\ handle["l1"] = pubFile

(* ------------------------------------------------------------------ *)
(* The order of the steps of an update                                 *)
(* ------------------------------------------------------------------ *)

\* The step of the pipeline an invocation is at: 1 CheckFreshness (about to
\* be called), 2 Download, 3 Decompress and Extract, 4 StageLocally,
\* 5 ValidateStaged, 6 AtomicInstall, 7 Done.
StepNo(pc) ==
    CASE pc = "idle" -> 1
      [] pc = "download" -> 2
      [] pc = "next" -> 3
      [] pc = "copy" -> 4
      [] pc = "validate" -> 5
      [] pc \in {"lock", "lockwait", "rename", "unlock", "unlockerr"} -> 6
      [] pc = "done" -> 7

\* C27: an invocation goes through the steps in the order CheckFreshness,
\* Download, Decompress and Extract, StageLocally, ValidateStaged,
\* AtomicInstall, Done: every move is within a step, to the next step, or, on
\* a failure or a fresh file, straight to Done; success is reported only by
\* the freshness check or at the end of AtomicInstall; and after Done, failed
\* or not, the invocation takes no further step (what follows is the return
\* or a new invocation, which starts with the freshness check).
C27_StepOrder ==
    [][\A u \in Updaters :
         /\ upc[u] \notin {"idle", "done"} =>
               /\ \/ StepNo(upc'[u]) = StepNo(upc[u])
                  \/ StepNo(upc'[u]) = StepNo(upc[u]) + 1
                  \/ upc'[u] = "done" /\ ures'[u] # "ok"
               /\ (upc'[u] = "done" /\ ures'[u] = "ok") => upc[u] = "unlock"
         /\ upc[u] \in {"idle", "done"} =>
               \/ upc'[u] = upc[u] /\ ures'[u] = ures[u]
               \/ upc'[u] = "idle"
               \/ upc'[u] = "download"
               \/ upc'[u] = "done" /\ ures'[u] = "ok" /\ pubFile.id # -1
                    /\ pubAtStart'[u] = pubFile
      ]_vars

\* One invocation has gone through every step to Done, another has failed at
\* the validation.
C27_Witness ==
    /\ upc["u1"] = "done" /\ ures["u1"] = "ok" /\ pubFile.id > 0 /\ serial["u1"] = pubFile.id
    /\ upc["u2"] = "done" /\ ures["u2"] = "ValidationFailed"

(* ------------------------------------------------------------------ *)
(* A lookup behind an update                                           *)
(* ------------------------------------------------------------------ *)

\* C28: a lookup that asks for the shared lock after the update has asked for
\* the exclusive one waits; it is let in only by the update's Unlock, that
\* is, after the rename, and when the rename succeeded the file on disk is
\* then the update's file, whole; the file does not change while the lookup
\* is about to open it, and what it opens is that file.
C28_LookupBehindUpdate ==
    [][\A l \in Lookups :
         /\ (lpc[l] = "rlock" /\ lpc'[l] # "rlock" /\ mutexW # None) =>
               lpc'[l] = "rwait" /\ l \notin readers'
         /\ (lpc[l] = "rwait" /\ lpc'[l] # "rwait") =>
               /\ lpc'[l] = "open" /\ l \in readers'
               /\ \E u \in Updaters :
                     /\ mutexW = u /\ mutexW' = None
                     /\ upc[u] \in {"unlock", "unlockerr"} /\ upc'[u] = "done"
                     /\ upc[u] = "unlock" =>
                           /\ pubFile.id = serial[u]
                           /\ pubFile.written = pubFile.size
                           /\ pubFile' = pubFile
         /\ lpc[l] = "open" =>
               /\ pubFile' = pubFile
               /\ lpc'[l] # "open" => handle'[l] = pubFile
      ]_vars

\* The rename is done, the exclusive lock is still held, and a lookup that
\* asked for the shared lock in the meantime is waiting.
C28_Witness ==
    /\ upc["u1"] = "unlock" /\ mutexW = "u1"
    /\ pubFile.id = serial["u1"] /\ pubFile.id > 0
    /\ lpc["l1"] = "rwait" /\ lin["l1"] = Addr(PublicV4)

(* ------------------------------------------------------------------ *)
(* The entries of the archive                                          *)
(* ------------------------------------------------------------------ *)

\* C29: when tarReader.Next() returns the header h, the entry is extracted
\* only if it is a regular file with the expected base name: its size then
\* goes into the total before anything else. Every other entry, whatever its
\* type, name and size, is passed over: no staging file is made, no path is
\* touched, the total stays as it was and the loop goes on. A staging file
\* appears only when such a header was read.
C29_OnlyTheDatabaseEntry ==
    [][\A u \in Updaters :
         /\ \A h \in ArchiveHeaders :
               (UpdTarSkip(u, h) \/ \E c \in BOOLEAN : UpdTarMatch(u, h, c)) =>
                  IF h.reg /\ h.name
                  THEN /\ totalSize'[u] = totalSize[u] + h.size
                       /\ skipped' = skipped
                       /\ upc'[u] \in {"copy", "done"}
                  ELSE /\ totalSize' = totalSize
                       /\ tmpFile' = tmpFile
                       /\ touched' = touched
                       /\ upc'[u] = "next" /\ ures' = ures
         /\ (tmpFile[u] = NoFile /\ tmpFile'[u] # NoFile) =>
               \E h \in ArchiveHeaders :
                  /\ h.reg /\ h.name /\ tmpFile'[u].size = h.size
                  /\ UpdTarMatch(u, h, TRUE)
      ]_vars

\* An entry has been passed over and the database entry after it has been
\* staged: the total is the size of the database entry alone.
C29_Witness ==
    /\ skipped["u1"] = 1 /\ upc["u1"] = "copy"
    /\ tmpFile["u1"] # NoFile /\ tmpFile["u1"].size = 300 * 1024 * 1024
    /\ totalSize["u1"] = 300 * 1024 * 1024

(* ------------------------------------------------------------------ *)
(* A missing or stale database                                         *)
(* ------------------------------------------------------------------ *)

\* C30: with the public file missing, or 14 days old or older, a call to
\* UpdateDatabase never returns at the freshness check: its first step takes
\* it to the download, and the download sends its request (unless the request
\* cannot even be built).
C30_MissingOrStaleDownloads ==
    [][\A u \in Updaters :
         /\ (upc[u] \in {"idle", "done"}
               /\ (pubFile.id = -1 \/ now - pubFile.mtime >= 14)) =>
               \/ upc'[u] = "download"
               \/ upc[u] = "done" /\ upc'[u] = "idle"
               \/ /\ upc'[u] = upc[u] /\ ures'[u] = ures[u]
                  /\ pubAtStart'[u] = pubAtStart[u] /\ serial'[u] = serial[u]
         /\ (upc[u] = "download" /\ upc'[u] # "download") =>
               httpCalls' = httpCalls + 1 \/ ures'[u] = "RequestFailed"
      ]_vars

\* A call that found the file exactly 14 days old has sent its request and is
\* reading the archive.
C30_Witness ==
    /\ now = 14 /\ pubFile = OldFile("valid")
    /\ upc["u1"] = "next" /\ pubAtStart["u1"] = pubFile /\ httpCalls = 1

(* ------------------------------------------------------------------ *)
(* The edge of the size limit                                          *)
(* ------------------------------------------------------------------ *)

\* C31: the step that reads the header of the database entry with a size of
\* exactly 300 MiB does not end with the size-limit error, and stages the
\* entry when the temporary file can be made; with a size of 300 MiB plus one
\* byte it ends the call with the size-limit error and stages nothing.
C31_CeilingIsAccepted ==
    [][\A u \in Updaters : \A h \in ArchiveHeaders : \A c \in BOOLEAN :
         (h.reg /\ h.name /\ UpdTarMatch(u, h, c)) =>
            /\ h.size = 300 * 1024 * 1024 =>
                  /\ ures'[u] # "SizeLimitExceeded"
                  /\ c => /\ upc'[u] = "copy"
                          /\ tmpFile'[u] # NoFile
                          /\ tmpFile'[u].size = 300 * 1024 * 1024
                          /\ tmpFile'[u].written = 0
            /\ h.size = 300 * 1024 * 1024 + 1 =>
                  /\ upc'[u] = "done" /\ ures'[u] = "SizeLimitExceeded"
                  /\ tmpFile' = tmpFile /\ tmpFile[u] = NoFile
      ]_vars

\* An entry of exactly 300 MiB has been staged, copied in full, validated and
\* installed.
C31_Witness ==
    /\ upc["u1"] = "done" /\ ures["u1"] = "ok"
    /\ totalSize["u1"] = 300 * 1024 * 1024
    /\ pubFile.id = serial["u1"] /\ pubFile.id > 0
    /\ pubFile.size = 300 * 1024 * 1024 /\ pubFile.written = 300 * 1024 * 1024

(* ------------------------------------------------------------------ *)
(* The lock at rest                                                    *)
(* ------------------------------------------------------------------ *)

\* C32: the shared lock is held by exactly the lookups that are between
\* RLock and the end of their call, whatever that end is (open failure,
\* decode failure, success); the exclusive lock is announced or held only by
\* an update between Lock and Unlock, whether its rename succeeded or not;
\* so with no lookup and no update in progress the lock is free.
C32_LockFreeAtRest ==
    /\ readers = {l \in Lookups : lpc[l] \in {"open", "decode"}}
    /\ \A u \in Updaters :
          mutexW = u <=> upc[u] \in {"lockwait", "rename", "unlock", "unlockerr"}
    /\ ((\A l \in Lookups : lpc[l] \in {"idle", "done"})
          /\ (\A u \in Updaters : upc[u] \in {"idle", "done"})) =>
             mutexW = None /\ readers = {}

\* At rest after a rename that failed and two lookups that failed on the
\* damaged file, one of them at the decode.
C32_Witness ==
    /\ upc["u1"] = "done" /\ ures["u1"] = "InstallFailed"
    /\ lpc["l1"] = "done" /\ lres["l1"] = Failure("decode")
    /\ lpc["l2"] = "done" /\ lres["l2"].err \in {"open", "decode"}
    /\ mutexW = None /\ readers = {}

(* ------------------------------------------------------------------ *)
(* One entry per invocation                                            *)
(* ------------------------------------------------------------------ *)

\* C33: an invocation reads headers only between its download and its first
\* database entry: once that entry is reached it never reads another header,
\* whether the staging, the validation and the rename succeed or fail. A
\* staging file is made only by the step that reaches that entry, so at most
\* one per invocation, and a first entry that does not validate ends the
\* call with the validation error and the public file untouched.
C33_FirstMatchingEntryOnly ==
    [][\A u \in Updaters :
         /\ upc'[u] = "next" => upc[u] \in {"download", "next"}
         /\ (tmpFile[u] = NoFile /\ tmpFile'[u] # NoFile) =>
               upc[u] = "next" /\ upc'[u] = "copy"
         /\ upc[u] \in {"copy", "validate", "lock", "lockwait", "rename",
                        "unlock", "unlockerr"} =>
               /\ skipped'[u] = skipped[u]
               /\ totalSize'[u] = totalSize[u]
               /\ tmpFile'[u] \in {NoFile, tmpFile[u],
                                   [tmpFile[u] EXCEPT !.written = tmpFile'[u].written,
                                                      !.mtime = tmpFile'[u].mtime]}
         /\ (upc[u] = "validate" /\ upc'[u] # "validate"
               /\ (tmpFile[u].size = 0 \/ tmpFile[u].quality # "valid")) =>
               /\ upc'[u] = "done" /\ ures'[u] = "ValidationFailed"
               /\ pubFile' = pubFile
      ]_vars

\* The first database entry of the archive did not validate: the call has
\* failed with nothing staged and the file that was on disk still there.
C33_Witness ==
    /\ upc["u1"] = "done" /\ ures["u1"] = "ValidationFailed"
    /\ tmpFile["u1"] = NoFile /\ httpCalls = 1
    /\ pubFile = OldFile("valid") /\ pubAtStart["u1"] = pubFile

(* ------------------------------------------------------------------ *)
(* Lookups side by side                                                *)
(* ------------------------------------------------------------------ *)

\* C34: a lookup that asks for the lock while no update has asked for it or
\* holds it gets it at once, whichever lookups hold it already, and joins
\* them in the section between RLock and RUnlock.
C34_SharedAmongLookups ==
    [][\A l \in Lookups :
         (lpc[l] = "rlock" /\ lpc'[l] # "rlock"
            /\ \A u \in Updaters : mutexW # u) =>
            /\ lpc'[l] = "open"
            /\ readers' = readers \cup {l}
      ]_vars

\* Two lookups of public addresses are in the section at once, one about to
\* open the file and one decoding.
C34_Witness ==
    /\ readers = {"l1", "l2"}
    /\ lpc["l1"] = "decode" /\ lin["l1"] = Addr(PublicV4)
    /\ lpc["l2"] = "open" /\ lin["l2"] = Addr(UnknownV4)
    /\ mutexW = None

(* ------------------------------------------------------------------ *)
(* UpdateDatabase on an instance whose updater is disabled             *)
(* ------------------------------------------------------------------ *)

\* C35: on an instance whose DisableUpdater() is true, a call to
\* UpdateDatabase that finds the file missing or 14 days old or older goes on
\* to the download as on any other instance, sends its request, and the flag
\* stays as it was; only a fresh file makes the call return at once.
C35_FlagNotConsulted ==
    [][\A u \in Updaters :
         /\ (DisableUpdater /\ upc[u] = "idle" /\ upc'[u] # "idle") =>
               /\ (pubFile.id = -1 \/ now - pubFile.mtime >= 14) => upc'[u] = "download"
               /\ upc'[u] = "done" => (pubFile.id # -1 /\ now - pubFile.mtime < 14)
         /\ (DisableUpdater /\ upc[u] = "download" /\ upc'[u] = "next") =>
               httpCalls' = httpCalls + 1
         /\ disableUpdater' = disableUpdater
      ]_vars

\* An instance whose updater is reported disabled has downloaded and
\* installed a database over the stale one.
C35_Witness ==
    /\ DisableUpdater /\ envConfig.MaxMindLicenseKey = ""
    /\ upc["u1"] = "done" /\ ures["u1"] = "ok" /\ httpCalls = 1
    /\ pubAtStart["u1"] = OldFile("valid") /\ now = 14
    /\ pubFile.id = 1 /\ pubFile.written = pubFile.size

(* ------------------------------------------------------------------ *)
(* Lookups change nothing                                              *)
(* ------------------------------------------------------------------ *)

\* C36: no step of a lookup, whatever its input and outcome, changes the file
\* at the public path or a staging file, and no step at all changes the
\* local ranges or the flag of the updater, which are those the constructor
\* computed from the configuration.
C36_LookupIsReadOnly ==
    [][/\ \A l \in Lookups :
            LookupStep(l, LookupInputs) =>
               /\ pubFile' = pubFile
               /\ tmpFile' = tmpFile
               /\ upc' = upc /\ ures' = ures /\ httpCalls' = httpCalls
       /\ localIPv6Ranges' = localIPv6Ranges
       /\ disableUpdater' = disableUpdater
       /\ envConfig' = envConfig
      ]_vars

\* Lookups have ended with a label and with an open error on a damaged file,
\* which is still on disk as it was.
C36_Witness ==
    /\ lpc["l1"] = "done" /\ lres["l1"] = Label("LAN")
    /\ lpc["l2"] = "done" /\ lres["l2"] = Failure("open")
    /\ handle["l2"] = OldFile("badmeta") /\ pubFile = OldFile("badmeta")
    /\ \A u \in Updaters : tmpFile[u] = NoFile

(* ------------------------------------------------------------------ *)
(* The size of a staging file                                          *)
(* ------------------------------------------------------------------ *)

\* C37: a staging file never holds more bytes than the size the header of
\* its entry declared, which is the total the invocation counted and is at
\* most 300 MiB.
C37_StagingWithinCeiling ==
    \A u \in Updaters :
        tmpFile[u].id # -1 =>
           /\ tmpFile[u].written >= 0
           /\ tmpFile[u].written <= tmpFile[u].size
           /\ tmpFile[u].size = totalSize[u]
           /\ tmpFile[u].size <= 300 * 1024 * 1024

\* A staging file has been filled to exactly 300 MiB.
C37_Witness ==
    /\ upc["u1"] = "validate"
    /\ tmpFile["u1"].size = 300 * 1024 * 1024
    /\ tmpFile["u1"].written = 300 * 1024 * 1024

(* ------------------------------------------------------------------ *)
(* IPv4 addresses and the configured ranges                            *)
(* ------------------------------------------------------------------ *)

\* C38: whatever ranges are configured, a call with an IPv4 address gets what
\* the built-in IPv4 ranges alone give it: the Tailscale label inside
\* 100.64.0.0/10, the LAN label inside the three private ranges, the
\* localhost label inside 127.0.0.0/8, and otherwise no label at all: the call
\* goes to the database.
C38_IPv4IgnoresConfiguredRanges ==
    \A l \in Lookups :
        (lpc[l] # "idle" /\ lin[l].form = "addr" /\ IsV4(lin[l].ip)) =>
           LET a == lin[l].ip[13]
               b == lin[l].ip[14]
               label == IF a = 100 /\ b >= 64 /\ b <= 127 THEN "Tailscale"
                        ELSE IF a = 10 \/ (a = 172 /\ b >= 16 /\ b <= 31)
                                \/ (a = 192 /\ b = 168) THEN "LAN"
                        ELSE IF a = 127 THEN "localhost"
                        ELSE "none"
           IN  IF label # "none"
               THEN /\ lpc[l] = "done"
                    /\ lres[l] = [country |-> "Internal Network", city |-> label,
                                  err |-> "nil"]
                    /\ handle[l] = NoFile
               ELSE /\ lres[l].country # "Internal Network"
                    /\ lpc[l] = "done" => handle[l] = pubFile

\* With ::/0 configured, 8.8.8.8 has been looked up in the database and
\* 100.64.0.1 has got the Tailscale label.
C38_Witness ==
    /\ localIPv6Ranges = {[ip |-> IPv6(<<0, 0, 0, 0, 0, 0, 0, 0>>), ones |-> 0]}
    /\ lpc["l1"] = "done" /\ lin["l1"] = Addr(PublicV4)
    /\ Exists(handle["l1"]) /\ lres["l1"].country = "Country0"
    /\ lpc["l2"] = "done" /\ lin["l2"] = Addr(IPv4(100, 64, 0, 1))
    /\ lres["l2"] = Label("Tailscale")

====
